---- MODULE Spec2Model ----
(***************************************************************************)
(* A model of the action-history side of strands-web-ui:                   *)
(*   - ActionHistoryCapture      (action_history/capture.py)               *)
(*   - SessionStateManager       (utils/session_state_manager.py)          *)
(*   - the callback handlers     (handlers/*.py)                           *)
(*                                                                         *)
(* Python objects are modelled with a heap: an ActionEvent is a cell of    *)
(* `heap`, and the lists capture.actions, st.session_state.action_history  *)
(* and the dict capture.pending_tool_uses hold cell numbers, so that an    *)
(* in-place update of an ActionEvent is seen through every list that holds *)
(* it, as in Python.                                                       *)
(***************************************************************************)
EXTENDS Integers, Sequences, FiniteSets, TLC

\* ------------------------------------------------------------------ bounds
MaxObj == 3          \* ActionEvent objects allocated in one behaviour
MaxToolObj == 2      \* ... in one behaviour of the tool reducer
MaxTurn == 2         \* start_new_turn / increment_turn calls followed
MaxToolTurn == 1     \* ... in one behaviour of the tool reducer
MaxReasonLen == 2    \* characters of reasoning text accumulated in a turn
MaxReasonObj == 2    \* ActionEvent objects in one behaviour of the reasoning reducer
MaxReasonTurn == 1   \* start_new_turn calls in one behaviour of the reasoning reducer
MaxKeep == 2         \* largest max_actions passed to cleanup_old_actions
MaxHandlers == 3     \* handlers in a CompositeCallbackHandler's chain
MaxTextLen == 13     \* characters of text a handler collects from streaming
MaxThinkLen == 6     \* characters of reasoning text a handler collects
MaxHistory == 1      \* entries of st.session_state.thinking_history
NumThreads == 2      \* threads that call add_action
MaxCalls == 2        \* add_action calls of one thread
MaxInputs == 2       \* user inputs submitted to the chat
MaxEvents == 2       \* events the agent passes to its callback handler for one input
MaxBlocks == 2       \* content blocks of the message of an AgentResult

\* ------------------------------------------------------------- value sets
Missing == "<missing>"              \* a key the payload dict does not have
ToolIds == {"t1"}
Statuses == {"success"}
NoneStr == "<None>"                 \* Python None in a string-valued field
ReasoningChunks == {<<>>, <<"a">>, <<"b">>}
ActionTypes == {"tool_use", "tool_result", "reasoning"}
AddedTypes == {"tool_use"}          \* action_type of the events given to add_action
AddedTurns == {1}                   \* and their turn

\* dict.get(key, default)
DictGet(v, default) == IF v = Missing THEN default ELSE v

\* ActionEvent(...): the fields the reducers read or write.  duration is kept
\* as "is not None" (has_duration); id and timestamp are never read back.
ActionEvent(turn, type, tid, ctx, text, out, status) ==
  [turn |-> turn, action_type |-> type, tool_use_id |-> tid,
   reasoning_context |-> ctx, reasoning_text |-> text,
   output_status |-> out, status |-> status, has_duration |-> FALSE]

Blank == ActionEvent(0, "free", NoneStr, <<>>, <<>>, NoneStr, NoneStr)

SessionKeys == {"action_history", "current_turn", "action_capture",
                "show_action_history", "action_history_expanded",
                "conversation_id", "last_cleanup_time",
                "action_capture_initialized"}

VARIABLES
  heap,            \* cell -> ActionEvent
  nalloc,          \* cells allocated so far
  cap_actions,     \* ActionHistoryCapture.actions (cells)
  cap_pending,     \* ActionHistoryCapture.pending_tool_uses: id -> cell, 0 = absent
  cap_turn,        \* ActionHistoryCapture.current_turn
  cap_reasoning,   \* ActionHistoryCapture.current_reasoning
  cap_rstart,      \* ActionHistoryCapture.reasoning_start_time is not None
  ss_has,          \* keys present in st.session_state
  ss_history,      \* st.session_state.action_history (cells)
  ss_turn,         \* st.session_state.current_turn
  ss_show,         \* st.session_state.show_action_history
  ss_expanded,     \* st.session_state.action_history_expanded
  ss_conversation_id,    \* st.session_state.conversation_id (0: never set)
  ss_last_cleanup_time,  \* st.session_state.last_cleanup_time (0: never set)
  last,            \* the call that ran last
  comp_handlers,   \* CompositeCallbackHandler.handlers: for each, is it callable
  comp_event,      \* the event of the latest __call__
  comp_log,        \* the handler invocations of the latest __call__, in order
  comp_result,     \* how the latest __call__ ended
  cl_final,        \* CleanResponseHandler.final_response
  cl_thinking,     \* CleanResponseHandler.thinking_content
  cl_tools,        \* CleanResponseHandler.tools_active
  cl_reasoning,    \* CleanResponseHandler.reasoning_active
  cl_expander,     \* CleanResponseHandler.thinking_placeholder is set
  cl_history,      \* st.session_state.thinking_history, as CleanResponseHandler fills it
  cl_event,        \* the latest CleanResponseHandler.__call__: its branch and text
  sth,             \* the StreamlitHandler
  lock,            \* SessionStateManager._lock: the thread that holds it, how often
  th_pc,           \* for each thread, the statement of add_action it is at
  th_key,          \* the list object under ACTION_HISTORY_KEY, 0 if the key is missing
  th_lists,        \* the list objects
  th_keys_set,     \* the other keys of initialize_session_state are set
  th_missing,      \* for each thread, what its  key not in st.session_state  gave
  th_history,      \* for each thread, its current_history (a list object, 0: none)
  th_done,         \* for each thread, the add_action calls that have returned
  th_overlap,      \* a thread has called add_action while another was in add_action
  app_messages,    \* st.session_state.messages
  app_processing,  \* st.session_state.processing
  app_events,      \* the handler calls the agent has made for the input it handles
  app_pc           \* main() waits for an input, or the agent runs

capVars == <<heap, nalloc, cap_actions, cap_pending, cap_turn, cap_reasoning, cap_rstart>>
ssVars == <<ss_has, ss_history, ss_turn, ss_show, ss_expanded, ss_conversation_id,
            ss_last_cleanup_time>>
compVars == <<comp_handlers, comp_event, comp_log, comp_result>>
cleanVars == <<cl_final, cl_thinking, cl_tools, cl_reasoning, cl_expander,
               cl_history, cl_event>>
threadVars == <<lock, th_pc, th_key, th_lists, th_keys_set, th_missing, th_history, th_done,
                th_overlap>>
appVars == <<app_messages, app_processing, app_events, app_pc>>
vars == <<capVars, ssVars, last, compVars, cleanVars, sth, threadVars, appVars>>

PendingIds == ToolIds \cup {"unknown"}
NoPending == [t \in PendingIds |-> 0]

\* The cells some list or dict refers to.
Range(f) == {f[x] : x \in DOMAIN f}
Reachable(acts, pend, hist) == Range(acts) \cup (Range(pend) \ {0}) \cup Range(hist)

\* Python frees an object nothing refers to.  The heap after a call: h, without
\* the cells that nothing referred to before the call and nothing refers to after it.
Gc(h) ==
  LET live == Reachable(cap_actions, cap_pending, ss_history)
              \cup Reachable(cap_actions', cap_pending', ss_history')
  IN [c \in DOMAIN h |-> IF c \in live THEN h[c] ELSE Blank]

\* The call that ran last: its name and its arguments (a tool use id, a status,
\* a number), and two records of the calls made on the stored capture instance:
\*   recorded  for each id, the action the latest capture_tool_use with that id
\*             created (0: capture_tool_use was never called with it),
\*   awaiting  the ids with no capture_tool_result and no clear_history since
\*             that capture_tool_use,
\*   chunks    the non-empty texts passed to capture_reasoning since the turn began
\*             (since the latest start_new_turn or clear_history).
Call(op, tid, status, n) ==
  LET fresh == \/ op = "start_new_conversation"
               \/ "action_capture" \notin ss_has
  IN [op |-> op, tid |-> tid, status |-> status, n |-> n,
      recorded |-> IF fresh THEN [t \in ToolIds \cup {"unknown"} |-> 0]
                   ELSE IF op = "capture_tool_use"
                        THEN [last.recorded EXCEPT ![tid] = nalloc + 1]
                   ELSE last.recorded,
      awaiting |-> IF fresh \/ op = "clear_history" THEN {}
                   ELSE IF op = "capture_tool_use" THEN last.awaiting \cup {tid}
                   ELSE IF op = "capture_tool_result" THEN last.awaiting \ {tid}
                   ELSE last.awaiting,
      chunks |-> IF fresh \/ op \in {"clear_history", "capture_start_new_turn",
                                     "enhanced_start_new_turn"}
                 THEN <<>>
                 ELSE last.chunks]

CaptureExists == "action_capture" \in ss_has

Init ==
  /\ heap = [c \in 1..MaxObj |-> Blank]
  /\ nalloc = 0
  /\ cap_actions = <<>>
  /\ cap_pending = NoPending
  /\ cap_turn = 0
  /\ cap_reasoning = <<>>
  /\ cap_rstart = FALSE
  /\ ss_has = {}
  /\ ss_history = <<>>
  /\ ss_turn = 0
  /\ ss_show = FALSE               \* no key yet: the variable's value means nothing
  /\ ss_expanded = TRUE
  /\ ss_conversation_id = 0
  /\ ss_last_cleanup_time = 0
  /\ last = [op |-> "init", tid |-> NoneStr, status |-> NoneStr, n |-> 0,
             recorded |-> NoPending, awaiting |-> {}, chunks |-> <<>>]
  /\ comp_handlers = <<>>
  /\ comp_event = NoneStr
  /\ comp_log = <<>>
  /\ comp_result = "none"
  /\ cl_final = <<>>
  /\ cl_thinking = <<>>
  /\ cl_tools = FALSE
  /\ cl_reasoning = FALSE
  /\ cl_expander = FALSE
  /\ cl_history = <<>>
  /\ cl_event = [branch |-> "none", streaming |-> FALSE, text |-> <<>>]
  /\ sth = [message_container |-> <<>>, thinking_container |-> <<>>, is_thinking |-> FALSE,
            thinking_placeholder |-> FALSE, thinking_preserved |-> FALSE,
            current_reasoning |-> <<>>, delta_buffer |-> <<>>, current_tool_calls |-> {},
            current_tool_results |-> {}, tools_in_use |-> FALSE, thinking_history |-> <<>>]
  /\ lock = [owner |-> 0, count |-> 0]
  /\ th_pc = [t \in 1..NumThreads |-> "idle"]
  /\ th_key = 0
  /\ th_lists = <<>>
  /\ th_keys_set = FALSE
  /\ th_missing = [t \in 1..NumThreads |-> FALSE]
  /\ th_history = [t \in 1..NumThreads |-> 0]
  /\ th_done = [t \in 1..NumThreads |-> 0]
  /\ th_overlap = FALSE
  /\ app_messages = <<>>
  /\ app_processing = FALSE
  /\ app_events = 0
  /\ app_pc = "input"

\* ------------------------------------------------- ActionHistoryCapture
\* _sync_to_session_state: both attributes are assigned, so both keys exist after.
SyncedKeys(has) == has \cup {"action_history", "current_turn"}

\* a search that finds no action
LastReasoningNone(h, acts, t) == 0

\* the most recent reasoning action of turn t in the list acts (0: none):
\*   for action in reversed(self.actions): if action.action_type == "reasoning" and ...
LastReasoningOf(h, acts, t) ==
  LET hits == {i \in 1..Len(acts) :
                 h[acts[i]].action_type = "reasoning" /\ h[acts[i]].turn = t}
  IN IF hits = {} THEN 0 ELSE acts[CHOOSE i \in hits : \A j \in hits : j <= i]

\* a lookup that never finds the id
IsPendingNever(tid) == FALSE

\* `if tool_use_id in self.pending_tool_uses`
IsPending(tid) == cap_pending[tid] # 0

CaptureToolUse(tidIn) ==
  LET tid == DictGet(tidIn, "unknown")
      c == nalloc + 1
  IN /\ CaptureExists
     /\ nalloc < MaxObj
     /\ last' = Call("capture_tool_use", tid, NoneStr, 0)
     /\ nalloc' = c
     /\ cap_pending' = [cap_pending EXCEPT ![tid] = c]
     /\ cap_actions' = Append(cap_actions, c)
     /\ ss_history' = cap_actions'
     /\ ss_turn' = cap_turn
     /\ ss_has' = SyncedKeys(ss_has)
     /\ heap' = Gc([heap EXCEPT ![c] =
                   ActionEvent(cap_turn, "tool_use", tid, cap_reasoning, <<>>, NoneStr, NoneStr)])
     /\ UNCHANGED <<cap_turn, cap_reasoning, cap_rstart, ss_show, ss_expanded, ss_conversation_id, ss_last_cleanup_time>>

\* the standalone action tagged with turn 0 instead of the current turn
OrphanResultTurnZero(turn, tid, status) ==
  ActionEvent(0, "tool_result", tid, <<>>, <<>>, status, status)

\* the standalone action of a result whose tool use is not pending
OrphanResult(turn, tid, status) ==
  ActionEvent(turn, "tool_result", tid, <<>>, <<>>, status, status)

CaptureToolResult(tidIn, statusIn) ==
  LET tid == DictGet(tidIn, "unknown")
      status == DictGet(statusIn, "unknown")
      c == nalloc + 1
  IN /\ CaptureExists
     /\ last' = Call("capture_tool_result", tid, status, 0)
     /\ IsPending(tid) \/ nalloc < MaxObj
     /\ nalloc' = IF IsPending(tid) THEN nalloc ELSE c
     /\ cap_actions' = IF IsPending(tid) THEN cap_actions ELSE Append(cap_actions, c)
     /\ cap_pending' = IF IsPending(tid) THEN [cap_pending EXCEPT ![tid] = 0] ELSE cap_pending
     /\ ss_history' = cap_actions'
     /\ ss_turn' = cap_turn
     /\ ss_has' = SyncedKeys(ss_has)
     /\ heap' = Gc(IF IsPending(tid)
                   THEN [heap EXCEPT ![cap_pending[tid]] =
                           [@ EXCEPT !.output_status = status, !.status = status,
                                     !.has_duration = TRUE]]
                   ELSE [heap EXCEPT ![c] = OrphanResult(cap_turn, tid, status)])
     /\ UNCHANGED <<cap_turn, cap_reasoning, cap_rstart, ss_show, ss_expanded, ss_conversation_id, ss_last_cleanup_time>>

\* reasoning_data as the callback passes it: a dict with "text", a dict with
\* "reasoningText" (a string, or a dict with "text"), a bare string, or anything else.
ReasoningShapes == {"text", "reasoningText", "reasoningTextDict", "str", "other"}
ExtractReasoningText(shape, text) == IF shape = "other" THEN <<>> ELSE text

CaptureReasoning(shape, text) ==
  LET reasoning_text == ExtractReasoningText(shape, text)
      starts == cap_reasoning = <<>>
      c == nalloc + 1
      acts == IF starts THEN Append(cap_actions, c) ELSE cap_actions
      h1 == IF starts
            THEN [heap EXCEPT ![c] =
                    ActionEvent(cap_turn, "reasoning", NoneStr, <<>>, reasoning_text,
                                NoneStr, NoneStr)]
            ELSE heap
      total == cap_reasoning \o reasoning_text
      target == LastReasoningOf(h1, acts, cap_turn)
  IN /\ CaptureExists
     /\ last' = [Call("capture_reasoning", NoneStr, NoneStr, Len(reasoning_text))
                   EXCEPT !.chunks = IF reasoning_text # <<>> THEN Append(@, reasoning_text)
                                     ELSE @]
     /\ IF reasoning_text # <<>>
        THEN /\ Len(total) <= MaxReasonLen
             /\ starts => nalloc < MaxObj
             /\ nalloc' = IF starts THEN c ELSE nalloc
             /\ cap_rstart' = (starts \/ cap_rstart)
             /\ cap_actions' = acts
             /\ cap_reasoning' = total
             /\ ss_history' = acts
             /\ ss_turn' = cap_turn
             /\ ss_has' = SyncedKeys(ss_has)
             /\ UNCHANGED cap_pending
             /\ heap' = Gc(IF target = 0 THEN h1
                           ELSE [h1 EXCEPT ![target] =
                                   [@ EXCEPT !.reasoning_text = total,
                                             !.has_duration = (cap_rstart' \/ @)]])
             /\ UNCHANGED <<cap_turn, ss_show, ss_expanded, ss_conversation_id, ss_last_cleanup_time>>
        ELSE /\ UNCHANGED <<nalloc, cap_actions, cap_pending, cap_turn, cap_reasoning,
                            cap_rstart, ssVars>>
             /\ heap' = Gc(heap)

CaptureReasoningEnd ==
  LET target == LastReasoningOf(heap, cap_actions, cap_turn)
  IN /\ CaptureExists
     /\ last' = Call("capture_reasoning_end", NoneStr, NoneStr, 0)
     /\ UNCHANGED <<nalloc, cap_actions, cap_pending, cap_turn, cap_reasoning, cap_rstart,
                    ssVars>>
     /\ heap' = Gc(IF cap_reasoning # <<>> /\ cap_rstart /\ target # 0
                   THEN [heap EXCEPT ![target] = [@ EXCEPT !.has_duration = TRUE]]
                   ELSE heap)

\* ActionHistoryCapture.start_new_turn
CaptureStartNewTurn ==
  /\ CaptureExists
  /\ cap_turn < MaxTurn
  /\ last' = Call("capture_start_new_turn", NoneStr, NoneStr, 0)
  /\ cap_turn' = cap_turn + 1
  /\ cap_reasoning' = <<>>
  /\ cap_rstart' = FALSE
  /\ ss_history' = cap_actions
  /\ ss_turn' = cap_turn'
  /\ ss_has' = SyncedKeys(ss_has)
  /\ UNCHANGED <<nalloc, cap_actions, cap_pending, ss_show, ss_expanded, ss_conversation_id, ss_last_cleanup_time>>
  /\ heap' = Gc(heap)

ClearHistory ==
  /\ CaptureExists
  /\ last' = Call("clear_history", NoneStr, NoneStr, 0)
  /\ cap_actions' = <<>>
  /\ cap_pending' = NoPending
  /\ cap_turn' = 0
  /\ cap_reasoning' = <<>>
  /\ cap_rstart' = FALSE
  /\ ss_history' = <<>>
  /\ ss_turn' = 0
  /\ ss_has' = SyncedKeys(ss_has)
  /\ UNCHANGED <<nalloc, ss_show, ss_expanded, ss_conversation_id, ss_last_cleanup_time>>
  /\ heap' = Gc(heap)

\* --------------------------------------------------- SessionStateManager
ManagerKeys == {"action_history", "current_turn", "action_capture",
                "show_action_history", "action_history_expanded",
                "conversation_id", "last_cleanup_time"}

\* ActionHistoryCapture(): the instance and the session keys after __init__
\* (_initialize_session_state, then _sync_from_session_state) run on a
\* session whose keys are `has`, with history `hist` and turn `turn`.
NewCapture(has, hist, turn) ==
  [has |-> has \cup {"action_history", "current_turn", "action_capture_initialized"},
   actions |-> IF "action_history" \in has THEN hist ELSE <<>>,
   pending |-> NoPending,
   turn |-> IF "current_turn" \in has THEN turn ELSE 0,
   reasoning |-> <<>>,
   rstart |-> FALSE]

\* _generate_conversation_id(): an id no earlier call returned (a timestamp and
\* a uuid4); of the ids, the model keeps whether it is the one that was stored.
GenerateConversationId(stored) == IF stored = 1 THEN 2 ELSE 1

\* datetime.now() when a time is stored: later than the time stored before
Now(stored) == IF stored = 1 THEN 2 ELSE 1

\* the key is set whatever the session holds
AlwaysDefault(key, value, default) == default

\* if key not in st.session_state: st.session_state[key] = default
\* The value under the key afterwards.
KeepOrDefault(key, value, default) == IF key \in ss_has THEN value ELSE default

\* initialize_session_state: the session and the stored capture instance after it.
Initialized ==
  LET hist == KeepOrDefault("action_history", ss_history, <<>>)
      turn == KeepOrDefault("current_turn", ss_turn, 0)
      has2 == ss_has \cup {"action_history", "current_turn"}
      fresh == "action_capture" \notin ss_has
      cap == IF fresh THEN NewCapture(has2, hist, turn)
             ELSE [has |-> has2, actions |-> cap_actions, pending |-> cap_pending,
                   turn |-> cap_turn, reasoning |-> cap_reasoning, rstart |-> cap_rstart]
  IN [has |-> cap.has \cup ManagerKeys,
      history |-> hist,
      turn |-> turn,
      show |-> KeepOrDefault("show_action_history", ss_show, TRUE),
      expanded |-> KeepOrDefault("action_history_expanded", ss_expanded, FALSE),
      conversation_id |-> KeepOrDefault("conversation_id", ss_conversation_id,
                                        GenerateConversationId(ss_conversation_id)),
      last_cleanup_time |-> KeepOrDefault("last_cleanup_time", ss_last_cleanup_time,
                                          Now(ss_last_cleanup_time)),
      cap |-> cap]

\* assigns the capture instance's fields from a record
SetCapture(cap) ==
  /\ cap_actions' = cap.actions
  /\ cap_pending' = cap.pending
  /\ cap_turn' = cap.turn
  /\ cap_reasoning' = cap.reasoning
  /\ cap_rstart' = cap.rstart

InitializeSessionState ==
  LET I == Initialized
  IN /\ last' = Call("initialize_session_state", NoneStr, NoneStr,
                      Cardinality(ManagerKeys \ ss_has))       \* the keys it creates
     /\ ss_has' = I.has
     /\ ss_history' = I.history
     /\ ss_turn' = I.turn
     /\ ss_show' = I.show
     /\ ss_expanded' = I.expanded
     /\ SetCapture(I.cap)
     /\ ss_conversation_id' = I.conversation_id
     /\ ss_last_cleanup_time' = I.last_cleanup_time
     /\ UNCHANGED <<nalloc>>
     /\ heap' = Gc(heap)

\* get_action_history(): the list it returns (a copy of the stored list)
GetActionHistory == Initialized.history

\* the action put in front instead
PrependAction(current_history, action) == <<action>> \o current_history

\* current_history.append(action)
AppendAction(current_history, action) == Append(current_history, action)

\* add_action(action), action a new ActionEvent the caller built
AddAction(type, turn) ==
  LET I == Initialized
      c == nalloc + 1
      current_history == AppendAction(I.history, c)
  IN /\ nalloc < MaxObj
     /\ last' = Call("add_action", NoneStr, NoneStr, c)
     /\ nalloc' = c
     /\ ss_history' = current_history
     /\ ss_has' = I.has
     /\ ss_turn' = I.turn
     /\ ss_show' = I.show
     /\ ss_expanded' = I.expanded
     /\ SetCapture(I.cap)
     /\ ss_conversation_id' = I.conversation_id
     /\ ss_last_cleanup_time' = I.last_cleanup_time
     /\ heap' = Gc([heap EXCEPT ![c] =
                      ActionEvent(turn, type, NoneStr, <<>>, <<>>, NoneStr, NoneStr)])

SetCurrentTurn(turn) ==
  LET I == Initialized
  IN /\ last' = Call("set_current_turn", NoneStr, NoneStr, turn)
     /\ ss_turn' = turn
     /\ ss_has' = I.has
     /\ ss_history' = I.history
     /\ ss_show' = I.show
     /\ ss_expanded' = I.expanded
     /\ SetCapture(I.cap)
     /\ ss_conversation_id' = I.conversation_id
     /\ ss_last_cleanup_time' = I.last_cleanup_time
     /\ UNCHANGED <<nalloc>>
     /\ heap' = Gc(heap)

\* increment_turn: the turn it stores, from the turn it reads
NewTurn(current_turn) == current_turn + 1

IncrementTurn ==
  LET I == Initialized
  IN /\ I.turn <= MaxTurn
     /\ last' = Call("increment_turn", NoneStr, NoneStr, 0)
     /\ ss_turn' = NewTurn(I.turn)
     /\ ss_has' = I.has
     /\ ss_history' = I.history
     /\ ss_show' = I.show
     /\ ss_expanded' = I.expanded
     /\ SetCapture(I.cap)
     /\ ss_conversation_id' = I.conversation_id
     /\ ss_last_cleanup_time' = I.last_cleanup_time
     /\ UNCHANGED <<nalloc>>
     /\ heap' = Gc(heap)

\* set_ui_state(**kwargs): each of the two keys given or not
SetUiState(show, expanded) ==
  LET I == Initialized
  IN /\ last' = Call("set_ui_state", NoneStr, NoneStr, 0)
     /\ ss_show' = IF show = Missing THEN I.show ELSE (show = "True")
     /\ ss_expanded' = IF expanded = Missing THEN I.expanded ELSE (expanded = "True")
     /\ ss_has' = I.has
     /\ ss_history' = I.history
     /\ ss_turn' = I.turn
     /\ SetCapture(I.cap)
     /\ ss_conversation_id' = I.conversation_id
     /\ ss_last_cleanup_time' = I.last_cleanup_time
     /\ UNCHANGED <<nalloc>>
     /\ heap' = Gc(heap)

\* start_new_conversation with the capture instance created before the session's
\* history and turn are cleared
StartNewConversationCaptureFirst ==
  LET cap == NewCapture(ss_has, ss_history, ss_turn)
  IN /\ last' = Call("start_new_conversation", NoneStr, NoneStr, 0)
     /\ ss_history' = <<>>
     /\ ss_turn' = 0
     /\ SetCapture(cap)
     /\ ss_has' = cap.has \cup {"action_capture", "conversation_id", "last_cleanup_time"}
     /\ ss_conversation_id' = GenerateConversationId(ss_conversation_id)
     /\ ss_last_cleanup_time' = Now(ss_last_cleanup_time)
     /\ UNCHANGED <<nalloc, ss_show, ss_expanded>>
     /\ heap' = Gc(heap)

StartNewConversation ==
  LET has1 == ss_has \cup {"action_history", "current_turn"}
      cap == NewCapture(has1, <<>>, 0)
  IN /\ last' = Call("start_new_conversation", NoneStr, NoneStr, 0)
     /\ ss_history' = <<>>
     /\ ss_turn' = 0
     /\ SetCapture(cap)
     /\ ss_has' = cap.has \cup {"action_capture", "conversation_id", "last_cleanup_time"}
     /\ ss_conversation_id' = GenerateConversationId(ss_conversation_id)
     /\ ss_last_cleanup_time' = Now(ss_last_cleanup_time)
     /\ UNCHANGED <<nalloc, ss_show, ss_expanded>>
     /\ heap' = Gc(heap)

\* actions[-max_actions:]
RecentActions(actions, max_actions) ==
  LET n == Len(actions)
      start == IF max_actions = 0 THEN 0
               ELSE IF max_actions >= n THEN 0 ELSE n - max_actions
  IN SubSeq(actions, start + 1, n)

CleanupOldActions(max_actions) ==
  LET I == Initialized
      actions == I.history
      trims == Len(actions) > max_actions
      recent_actions == RecentActions(actions, max_actions)
  IN /\ last' = Call("cleanup_old_actions", NoneStr, NoneStr, max_actions)
     /\ ss_history' = IF trims THEN recent_actions ELSE I.history
     /\ SetCapture(IF trims THEN [I.cap EXCEPT !.actions = recent_actions] ELSE I.cap)
     /\ ss_conversation_id' = I.conversation_id
     /\ ss_last_cleanup_time' = I.last_cleanup_time
     /\ ss_has' = I.has
     /\ ss_turn' = I.turn
     /\ ss_show' = I.show
     /\ ss_expanded' = I.expanded
     /\ UNCHANGED <<nalloc>>
     /\ heap' = Gc(heap)

SyncWithActionCapture ==
  LET I == Initialized
  IN /\ last' = Call("sync_with_action_capture", NoneStr, NoneStr, 0)
     /\ SetCapture([I.cap EXCEPT !.actions = I.history, !.turn = I.turn])
     /\ ss_conversation_id' = I.conversation_id
     /\ ss_last_cleanup_time' = I.last_cleanup_time
     /\ ss_has' = I.has
     /\ ss_history' = I.history
     /\ ss_turn' = I.turn
     /\ ss_show' = I.show
     /\ ss_expanded' = I.expanded
     /\ UNCHANGED <<nalloc>>
     /\ heap' = Gc(heap)

\* ------------------------------------------- EnhancedStreamlitHandler
\* start_new_turn: action_capture.start_new_turn(), then
\* SessionStateManager.increment_turn() on the session the capture just wrote.
EnhancedStartNewTurn ==
  LET captured == cap_turn + 1              \* capture.start_new_turn
      synced == captured                    \* _sync_to_session_state
  IN /\ CaptureExists
     /\ ManagerKeys \subseteq ss_has        \* the handler's __init__ initialized the session
     /\ cap_turn < MaxTurn
     /\ last' = Call("enhanced_start_new_turn", NoneStr, NoneStr, 0)
     /\ cap_turn' = captured
     /\ cap_reasoning' = <<>>
     /\ cap_rstart' = FALSE
     /\ ss_history' = cap_actions
     /\ ss_turn' = NewTurn(synced)          \* increment_turn
     /\ UNCHANGED <<nalloc, cap_actions, cap_pending, ss_has, ss_show, ss_expanded, ss_conversation_id, ss_last_cleanup_time>>
     /\ heap' = Gc(heap)

\* The tool reducer: tool uses and results, turns, and what empties the lists.
NextTools ==
  /\ \/ InitializeSessionState
     \/ \E t \in ToolIds \cup {Missing} : CaptureToolUse(t)
     \/ \E t \in ToolIds \cup {Missing}, s \in Statuses \cup {Missing} : CaptureToolResult(t, s)
     \/ CaptureStartNewTurn
     \/ ClearHistory
     \/ \E m \in 0..MaxKeep : CleanupOldActions(m)
  /\ nalloc' <= MaxToolObj
  /\ cap_turn' <= MaxToolTurn
  /\ UNCHANGED <<compVars, cleanVars, sth, threadVars, appVars>>

SpecTools == Init /\ [][NextTools]_vars

\* The turn counters: the capture instance's and the session's.
NextTurn ==
  /\ \/ InitializeSessionState
     \/ CaptureToolUse("t1")
     \/ CaptureStartNewTurn
     \/ \E tu \in 0..MaxTurn : SetCurrentTurn(tu)
     \/ IncrementTurn
     \/ SyncWithActionCapture
     \/ StartNewConversation
     \/ EnhancedStartNewTurn
  /\ UNCHANGED <<compVars, cleanVars, sth, threadVars, appVars>>

SpecTurn == Init /\ [][NextTurn]_vars

\* The session's action history: SessionStateManager's operations on it, with
\* the capture instance recording tool uses in between.
NextHistory ==
  /\ \/ InitializeSessionState
     \/ CaptureToolUse("t1")
     \/ CaptureStartNewTurn
     \/ \E ty \in AddedTypes, tu \in AddedTurns : AddAction(ty, tu)
     \/ \E sh \in {"True", "False", Missing}, ex \in {"True", "False", Missing} : SetUiState(sh, ex)
     \/ StartNewConversation
     \/ \E m \in 0..MaxKeep : CleanupOldActions(m)
     \/ SyncWithActionCapture
  /\ UNCHANGED <<compVars, cleanVars, sth, threadVars, appVars>>

SpecHistory == Init /\ [][NextHistory]_vars

\* The reasoning reducer: the capture instance's calls in the order the
\* callback events and the clear button give them.
NextReasoning ==
  /\ \/ InitializeSessionState
     \/ \E shape \in ReasoningShapes, text \in ReasoningChunks : CaptureReasoning(shape, text)
     \/ CaptureReasoningEnd
     \/ CaptureStartNewTurn
     \/ CaptureToolUse("t1")
     \/ ClearHistory
  /\ nalloc' <= MaxReasonObj
  /\ cap_turn' <= MaxReasonTurn
  /\ UNCHANGED <<compVars, cleanVars, sth, threadVars, appVars>>

SpecReasoning == Init /\ [][NextReasoning]_vars

\* ------------------------------------------- CompositeCallbackHandler
\* What a handler does when it is called: it returns, it raises an Exception,
\* or it raises a BaseException that is no Exception (KeyboardInterrupt,
\* SystemExit, GeneratorExit).
Outcomes == {"returns", "raises Exception", "raises BaseException"}
CallbackEvents == {"data", "message"}

\* add_handler(handler), and CompositeCallbackHandler(handlers) one handler at a time
AddHandler(callable) ==
  /\ Len(comp_handlers) < MaxHandlers
  /\ comp_handlers' = Append(comp_handlers, callable)
  /\ comp_event' = NoneStr
  /\ comp_log' = <<>>
  /\ comp_result' = "none"

\* the loop ends at the first Exception, as with the try around the loop
AfterExceptionStop(i, n) == n + 1

\* the loop goes on with the next handler after `except Exception` logged the error
AfterException(i, n) == i + 1

\* __call__'s loop from handler i on: the invocations made, and how the call ends.
\* does[i] is what handler i does if it is called.
RECURSIVE RunChain(_, _, _)
RunChain(i, does, log) ==
  IF i > Len(comp_handlers) THEN [log |-> log, result |-> "returned"]
  ELSE IF ~comp_handlers[i]                       \* not callable: a warning
       THEN RunChain(i + 1, does, log)
  ELSE LET log2 == Append(log, [handler |-> i, outcome |-> does[i]])
       IN IF does[i] = "returns" THEN RunChain(i + 1, does, log2)
          ELSE IF does[i] = "raises Exception"
               THEN RunChain(AfterException(i, Len(comp_handlers)), does, log2)
          ELSE [log |-> log2, result |-> "propagated"]

CompositeCall(event, does) ==
  LET run == RunChain(1, does, <<>>)
  IN /\ comp_event' = event
     /\ comp_log' = run.log
     /\ comp_result' = run.result
     /\ UNCHANGED comp_handlers

NextComposite ==
  /\ \/ \E callable \in BOOLEAN : AddHandler(callable)
     \/ \E event \in CallbackEvents, does \in [1..Len(comp_handlers) -> Outcomes] :
          CompositeCall(event, does)
  /\ UNCHANGED <<capVars, ssVars, last, cleanVars, sth, threadVars, appVars>>

SpecComposite == Init /\ [][NextComposite]_vars

\* ------------------------------------------------------------------ str
\* A str is the sequence of its characters.
Whitespace == {" ", "\n", "\t", "\r", "\f"}

LowerOf ==
  ("A" :> "a") @@ ("B" :> "b") @@ ("C" :> "c") @@ ("D" :> "d") @@ ("E" :> "e")
  @@ ("F" :> "f") @@ ("G" :> "g") @@ ("H" :> "h") @@ ("I" :> "i") @@ ("J" :>
  "j") @@ ("K" :> "k") @@ ("L" :> "l") @@ ("M" :> "m") @@ ("N" :> "n") @@ ("O"
  :> "o") @@ ("P" :> "p") @@ ("Q" :> "q") @@ ("R" :> "r") @@ ("S" :> "s") @@
  ("T" :> "t") @@ ("U" :> "u") @@ ("V" :> "v") @@ ("W" :> "w") @@ ("X" :> "x")
  @@ ("Y" :> "y") @@ ("Z" :> "z")

\* str.lower()
Lower(text) ==
  [i \in 1..Len(text) |-> IF text[i] \in DOMAIN LowerOf THEN LowerOf[text[i]] ELSE text[i]]

\* str.strip()
Strip(text) ==
  LET ink == {i \in 1..Len(text) : text[i] \notin Whitespace}
  IN IF ink = {} THEN <<>>
     ELSE SubSeq(text, CHOOSE i \in ink : \A j \in ink : i <= j,
                       CHOOSE i \in ink : \A j \in ink : i >= j)

OccursAt(text, part, i) ==
  /\ i + Len(part) - 1 <= Len(text)
  /\ \A k \in 1..Len(part) : text[i + k - 1] = part[k]

\* part in text
Contains(text, part) == \E i \in 1..(Len(text) - Len(part) + 1) : OccursAt(text, part, i)

\* str.split()
RECURSIVE SplitFrom(_, _, _, _)
SplitFrom(text, i, word, words) ==
  IF i > Len(text) THEN (IF word = <<>> THEN words ELSE Append(words, word))
  ELSE IF text[i] \in Whitespace
       THEN SplitFrom(text, i + 1, <<>>, IF word = <<>> THEN words ELSE Append(words, word))
  ELSE SplitFrom(text, i + 1, Append(word, text[i]), words)

Split(text) == SplitFrom(text, 1, <<>>, <<>>)

\* the first index from i on where part occurs in text, 0 if there is none
FindFrom(text, part, i) ==
  LET at == {j \in i..Len(text) : OccursAt(text, part, j)}
  IN IF at = {} THEN 0 ELSE CHOOSE j \in at : \A k \in at : j <= k

\* the first index from i on of a character of chars, Len(text) + 1 if there is none
FirstOf(text, chars, i) ==
  LET at == {j \in i..Len(text) : text[j] \in chars}
  IN IF at = {} THEN Len(text) + 1 ELSE CHOOSE j \in at : \A k \in at : j <= k

\* A pattern  head.*?(?=c|$)  or  head.*?tail.*?(?=c|$)  of re, under IGNORECASE,
\* is [head, tail] in lower case, tail <<>> if there is none.  until is {c};
\* within is what '.' does not match ({} under DOTALL, the newline otherwise).
\* MatchEnd is the index of the last character of the match that starts
\* at i, 0 if none starts there ($ also matches before a newline that ends text);
\* low is Lower(text).
MatchEnd(text, low, pattern, until, within, i) ==
  LET p == i + Len(pattern.head)
      j == FindFrom(low, pattern.tail, p)
      q == IF pattern.tail = <<>> THEN p ELSE j + Len(pattern.tail)
  IN IF ~OccursAt(low, pattern.head, i) THEN 0
     ELSE IF pattern.tail # <<>> /\ (j = 0 \/ FirstOf(text, within, p) < j) THEN 0
     ELSE LET dollar == IF Len(text) >= q /\ text[Len(text)] = "\n"
                        THEN Len(text) ELSE Len(text) + 1
              stop == FirstOf(text, until \cup within, q)
          IN (IF stop < dollar THEN stop ELSE dollar) - 1

\* re.sub(pattern, "", text)
RECURSIVE SubFrom(_, _, _, _, _, _, _)
SubFrom(text, low, pattern, until, within, i, out) ==
  IF i > Len(text) THEN out
  ELSE LET e == MatchEnd(text, low, pattern, until, within, i)
       IN IF e = 0 THEN SubFrom(text, low, pattern, until, within, i + 1, Append(out, text[i]))
          ELSE SubFrom(text, low, pattern, until, within, e + 1, out)

\* re.sub with each pattern of the list in turn
RECURSIVE SubAll(_, _, _, _, _)
SubAll(text, patterns, until, within, k) ==
  IF k > Len(patterns) THEN text
  ELSE SubAll(SubFrom(text, Lower(text), patterns[k], until, within, 1, <<>>),
              patterns, until, within, k + 1)

\* re.sub(r'\s+', ' ', text)
RECURSIVE CollapseSpaces(_, _, _)
CollapseSpaces(text, i, out) ==
  IF i > Len(text) THEN out
  ELSE IF text[i] \notin Whitespace THEN CollapseSpaces(text, i + 1, Append(out, text[i]))
  ELSE CollapseSpaces(text, FirstOf(text, {c \in Range(text) : c \notin Whitespace}, i), Append(out, " "))

\* re.sub(r'\n\s*\n', '\n\n', text)
RECURSIVE CollapseBlankLines(_, _, _)
CollapseBlankLines(text, i, out) ==
  IF i > Len(text) THEN out
  ELSE LET run == FirstOf(text, {c \in Range(text) : c \notin Whitespace}, i + 1) - 1
           nl == {j \in (i + 1)..run : text[j] = "\n"}
       IN IF text[i] = "\n" /\ nl # {}
          THEN CollapseBlankLines(text, (CHOOSE j \in nl : \A k \in nl : j >= k) + 1,
                                  out \o <<"\n", "\n">>)
          ELSE CollapseBlankLines(text, i + 1, Append(out, text[i]))

\* ------------------------------------------- CleanResponseHandler filters
CleanReasoningFragments ==
  { <<"s", "e", "a", "r", "c", "h", " ", "f", "o", "r">>,
    <<"u", "s", "e", " ", "t", "h", "e", " ", "b", "r", "o", "w", "s", "e", "r">>,
    <<"c", "l", "i", "c", "k", " ", "t", "h", "e">>,
    <<"l", "e", "t", " ", "m", "e">>,
    <<"i", "'", "l", "l">>,
    <<"t", "r", "y", " ", "a", "n", "o", "t", "h", "e", "r">>,
    <<"n", "o", "w", " ", "l", "e", "t">>,
    <<"b", "a", "s", "e", "d", " ", "o", "n">>,
    <<"s", "e", "a", "r", "c", "h", " ", "q", "u", "e", "r", "y">>,
    <<"s", "e", "a", "r", "c", "h", " ", "b", "u", "t", "t", "o", "n">>,
    <<"s", "a", "m", "s", "u", "n", "g">>,
    <<"g", "a", "l", "a", "x", "y">>,
    <<"g", "e", "n", "a", "i">>,
    <<"c", "a", "s", "e", "s">>,
    <<"l", "a", "t", "e", "s", "t">>,
    <<"p", "h", "o", "n", "e", "s">> }

\* _is_reasoning_fragment(text)
CleanIsReasoningFragment(text) ==
  IF text = <<>> \/ Len(Strip(text)) < 3 THEN FALSE
  ELSE /\ Len(Strip(text)) < 50
       /\ \E fragment \in CleanReasoningFragments : Contains(Strip(Lower(text)), fragment)

CleanReasoningPatterns ==
  << [head |-> <<"i", "'", "l", "l", " ", "u", "s", "e", " ", "t", "h", "e", " ", "b", "r", "o", "w", "s", "e", "r", " ", "t", "o", "o", "l", " ", "t", "o", " ", "s", "e", "a", "r", "c", "h">>,
      tail |-> <<>>],
     [head |-> <<"l", "e", "t", " ", "m", "e", " ", "s", "e", "a", "r", "c", "h", " ", "f", "o", "r">>,
      tail |-> <<>>],
     [head |-> <<"i", "'", "l", "l", " ", "s", "e", "a", "r", "c", "h", " ", "f", "o", "r">>,
      tail |-> <<>>],
     [head |-> <<"l", "e", "t", " ", "m", "e", " ", "t", "r", "y">>,
      tail |-> <<>>],
     [head |-> <<"l", "e", "t", " ", "m", "e", " ", "c", "l", "i", "c", "k">>,
      tail |-> <<>>],
     [head |-> <<"i", "'", "l", "l", " ", "c", "l", "i", "c", "k">>,
      tail |-> <<>>],
     [head |-> <<"n", "o", "w", " ", "l", "e", "t", " ", "m", "e">>,
      tail |-> <<>>],
     [head |-> <<"l", "e", "t", " ", "m", "e", " ", "n", "o", "w">>,
      tail |-> <<>>],
     [head |-> <<"b", "a", "s", "e", "d", " ", "o", "n", " ", "t", "h", "e", " ", "s", "e", "a", "r", "c", "h", " ", "r", "e", "s", "u", "l", "t", "s">>,
      tail |-> <<"l", "e", "t", " ", "m", "e">>],
     [head |-> <<"i", "'", "m", " ", "r", "e", "c", "e", "i", "v", "i", "n", "g", " ", "l", "a", "r", "g", "e", " ", "r", "e", "s", "p", "o", "n", "s", "e", "s">>,
      tail |-> <<"l", "e", "t", " ", "m", "e">>] >>

\* _filter_reasoning_content(text): IGNORECASE | MULTILINE
CleanFilterReasoningContent(text) ==
  IF text = <<>> THEN text
  ELSE Strip(CollapseBlankLines(SubAll(text, CleanReasoningPatterns, {"\n"}, {"\n"}, 1), 1, <<>>))

\* ------------------------------------------------ StreamlitHandler filters
ReasoningIndicators ==
  { <<"i", "'", "l", "l", " ", "u", "s", "e", " ", "t", "h", "e", " ", "b", "r", "o", "w", "s", "e", "r", " ", "t", "o", "o", "l">>,
    <<"l", "e", "t", " ", "m", "e", " ", "s", "e", "a", "r", "c", "h", " ", "f", "o", "r">>,
    <<"i", "'", "l", "l", " ", "s", "e", "a", "r", "c", "h", " ", "f", "o", "r">>,
    <<"l", "e", "t", " ", "m", "e", " ", "t", "r", "y">>,
    <<"i", " ", "n", "e", "e", "d", " ", "t", "o">>,
    <<"n", "o", "w", " ", "l", "e", "t", " ", "m", "e">>,
    <<"l", "e", "t", " ", "m", "e", " ", "c", "l", "i", "c", "k">>,
    <<"i", "'", "l", "l", " ", "c", "l", "i", "c", "k">>,
    <<"b", "a", "s", "e", "d", " ", "o", "n", " ", "t", "h", "e", " ", "s", "e", "a", "r", "c", "h", " ", "r", "e", "s", "u", "l", "t", "s">>,
    <<"l", "e", "t", " ", "m", "e", " ", "n", "o", "w", " ", "t", "a", "k", "e">>,
    <<"i", "'", "m", " ", "r", "e", "c", "e", "i", "v", "i", "n", "g", " ", "l", "a", "r", "g", "e", " ", "r", "e", "s", "p", "o", "n", "s", "e", "s">>,
    <<"l", "e", "t", " ", "m", "e", " ", "t", "r", "y", " ", "a", " ", "d", "i", "f", "f", "e", "r", "e", "n", "t", " ", "a", "p", "p", "r", "o", "a", "c", "h">>,
    <<"l", "e", "t", " ", "m", "e", " ", "t", "r", "y", " ", "a", "n", "o", "t", "h", "e", "r">>,
    <<"n", "o", "w", ",", " ", "l", "e", "t", " ", "m", "e", " ", "l", "o", "o", "k", " ", "a", "t">>,
    <<"l", "e", "t", " ", "m", "e", " ", "l", "o", "o", "k", " ", "a", "t", " ", "o", "n", "e", " ", "o", "f">>,
    <<"i", "'", "l", "l", " ", "h", "e", "l", "p", " ", "y", "o", "u", " ", "s", "e", "a", "r", "c", "h">>,
    <<"l", "e", "t", " ", "m", "e", " ", "u", "s", "e", " ", "t", "h", "e", " ", "b", "r", "o", "w", "s", "e", "r">> }

ReasoningFragments ==
  { <<"s", "e", "a", "r", "c", "h", " ", "f", "o", "r">>,
    <<"u", "s", "e", " ", "t", "h", "e", " ", "b", "r", "o", "w", "s", "e", "r">>,
    <<"c", "l", "i", "c", "k", " ", "t", "h", "e">>,
    <<"l", "o", "o", "k", " ", "a", "t">>,
    <<"t", "r", "y", " ", "a", "n", "o", "t", "h", "e", "r">>,
    <<"t", "r", "y", " ", "a", " ", "d", "i", "f", "f", "e", "r", "e", "n", "t">>,
    <<"n", "o", "w", " ", "l", "e", "t">>,
    <<"l", "e", "t", " ", "m", "e">>,
    <<"i", "'", "l", "l">>,
    <<"b", "a", "s", "e", "d", " ", "o", "n">>,
    <<"s", "e", "a", "r", "c", "h", " ", "q", "u", "e", "r", "y">>,
    <<"s", "e", "a", "r", "c", "h", " ", "b", "u", "t", "t", "o", "n">>,
    <<"s", "e", "a", "r", "c", "h", " ", "r", "e", "s", "u", "l", "t", "s">>,
    <<"i", "n", "f", "o", "r", "m", "a", "t", "i", "v", "e", " ", "s", "e", "a", "r", "c", "h">>,
    <<"c", "o", "m", "p", "r", "e", "h", "e", "n", "s", "i", "v", "e", " ", "s", "u", "m", "m", "a", "r", "y">>,
    <<"l", "a", "t", "e", "s", "t", " ", "s", "a", "m", "s", "u", "n", "g">>,
    <<"g", "e", "n", "a", "i", " ", "u", "s", "e", " ", "c", "a", "s", "e", "s">>,
    <<"g", "a", "l", "a", "x", "y", " ", "p", "h", "o", "n", "e", "s">>,
    <<"s", "a", "m", "s", "u", "n", "g", " ", "g", "a", "l", "a", "x", "y">>,
    <<"b", "r", "o", "w", "s", "e", "r", " ", "t", "o", " ", "l", "o", "o", "k">>,
    <<"h", "e", "l", "p", " ", "m", "e", " ", "p", "r", "o", "v", "i", "d", "e">>,
    <<"b", "e", "t", "t", "e", "r", " ", "v", "i", "s", "u", "a", "l", "i", "z", "e">>,
    <<"t", "a", "k", "e", " ", "a", " ", "s", "c", "r", "e", "e", "n", "s", "h", "o", "t">> }

ReasoningWords ==
  { <<"s", "e", "a", "r", "c", "h">>,
    <<"c", "l", "i", "c", "k">>,
    <<"t", "r", "y">>,
    <<"l", "o", "o", "k">>,
    <<"l", "e", "t">>,
    <<"n", "o", "w">>,
    <<"u", "s", "e">>,
    <<"b", "r", "o", "w", "s", "e", "r">>,
    <<"q", "u", "e", "r", "y">>,
    <<"b", "u", "t", "t", "o", "n">>,
    <<"r", "e", "s", "u", "l", "t", "s">>,
    <<"s", "a", "m", "s", "u", "n", "g">>,
    <<"g", "a", "l", "a", "x", "y">>,
    <<"g", "e", "n", "a", "i">>,
    <<"c", "a", "s", "e", "s">>,
    <<"l", "a", "t", "e", "s", "t">>,
    <<"p", "h", "o", "n", "e", "s">> }

\* _is_reasoning_text(text)
IsReasoningText(text) ==
  IF text = <<>> \/ Len(Strip(text)) < 2 THEN FALSE
  ELSE LET text_lower == Strip(Lower(text))
           words == Split(text_lower)
           reasoning_word_count ==
             Cardinality({k \in 1..Len(words) : \E rw \in ReasoningWords : Contains(words[k], rw)})
       IN \/ \E indicator \in ReasoningIndicators : Contains(text_lower, indicator)
          \/ /\ Len(Strip(text)) < 150
             /\ \E fragment \in ReasoningFragments : Contains(text_lower, fragment)
          \/ /\ Len(Strip(text)) < 50
             /\ Len(words) > 0
             /\ 10 * reasoning_word_count > 3 * Len(words)     \* count / len > 0.3

SmallReasoningFragments ==
  { <<"y", "o", "u", " ", "s", "e", "a", "r", "c", "h", " ", "f", "o", "r">>,
    <<"t", "h", "e", " ", "l", "a", "t", "e", "s", "t">>,
    <<"u", "s", "e", " ", "t", "h", "e", " ", "b", "r", "o", "w", "s", "e", "r">>,
    <<"c", "l", "i", "c", "k", " ", "t", "h", "e">>,
    <<"s", "e", "a", "r", "c", "h", " ", "q", "u", "e", "r", "y">>,
    <<"s", "e", "a", "r", "c", "h", " ", "b", "u", "t", "t", "o", "n">>,
    <<"g", "e", "n", "a", "i", " ", "u", "s", "e", " ", "c", "a", "s", "e", "s">>,
    <<"s", "a", "m", "s", "u", "n", "g", " ", "p", "h", "o", "n", "e", "s">>,
    <<"g", "a", "l", "a", "x", "y", " ", "p", "h", "o", "n", "e", "s">>,
    <<"b", "r", "o", "w", "s", "e", "r", " ", "t", "o", " ", "l", "o", "o", "k">>,
    <<"h", "e", "l", "p", " ", "m", "e", " ", "p", "r", "o", "v", "i", "d", "e">>,
    <<"t", "a", "k", "e", " ", "a", " ", "s", "c", "r", "e", "e", "n", "s", "h", "o", "t">>,
    <<"b", "e", "t", "t", "e", "r", " ", "v", "i", "s", "u", "a", "l", "i", "z", "e">>,
    <<"c", "o", "m", "p", "r", "e", "h", "e", "n", "s", "i", "v", "e", " ", "s", "u", "m", "m", "a", "r", "y">>,
    <<"i", "n", "f", "o", "r", "m", "a", "t", "i", "v", "e", " ", "s", "e", "a", "r", "c", "h">>,
    <<"s", "e", "a", "r", "c", "h", " ", "r", "e", "s", "u", "l", "t", "s">>,
    <<"n", "o", "w", " ", "l", "e", "t">>,
    <<"l", "e", "t", " ", "m", "e">>,
    <<"i", "'", "l", "l">>,
    <<"t", "r", "y", " ", "a", "n", "o", "t", "h", "e", "r">> }

ReasoningKeywords ==
  { <<"s", "e", "a", "r", "c", "h">>,
    <<"c", "l", "i", "c", "k">>,
    <<"b", "r", "o", "w", "s", "e", "r">>,
    <<"s", "a", "m", "s", "u", "n", "g">>,
    <<"g", "a", "l", "a", "x", "y">>,
    <<"g", "e", "n", "a", "i">>,
    <<"l", "a", "t", "e", "s", "t">>,
    <<"c", "a", "s", "e", "s">> }

\* _is_small_reasoning_fragment(text)
IsSmallReasoningFragment(text) ==
  IF text = <<>> \/ Len(Strip(text)) < 3 THEN FALSE
  ELSE LET text_lower == Strip(Lower(text))
       IN \/ \E fragment \in SmallReasoningFragments : Contains(text_lower, fragment)
          \/ /\ Len(Strip(text)) < 30
             /\ Cardinality({keyword \in ReasoningKeywords : Contains(text_lower, keyword)}) >= 2

ReasoningPatterns ==
  << [head |-> <<"i", "'", "l", "l", " ", "u", "s", "e", " ", "t", "h", "e", " ", "b", "r", "o", "w", "s", "e", "r", " ", "t", "o", "o", "l", " ", "t", "o", " ", "s", "e", "a", "r", "c", "h", " ", "f", "o", "r">>,
      tail |-> <<>>],
     [head |-> <<"i", "'", "l", "l", " ", "s", "e", "a", "r", "c", "h", " ", "f", "o", "r">>,
      tail |-> <<>>],
     [head |-> <<"l", "e", "t", " ", "m", "e", " ", "s", "e", "a", "r", "c", "h", " ", "f", "o", "r">>,
      tail |-> <<>>],
     [head |-> <<"l", "e", "t", " ", "m", "e", " ", "t", "r", "y">>,
      tail |-> <<>>],
     [head |-> <<"i", " ", "n", "e", "e", "d", " ", "t", "o">>,
      tail |-> <<>>],
     [head |-> <<"f", "i", "r", "s", "t", ",", " ", "i", "'", "l", "l">>,
      tail |-> <<>>],
     [head |-> <<"n", "o", "w", " ", "i", "'", "l", "l">>,
      tail |-> <<>>],
     [head |-> <<"i", " ", "s", "h", "o", "u", "l", "d">>,
      tail |-> <<>>],
     [head |-> <<"l", "e", "t", " ", "m", "e", " ", "c", "h", "e", "c", "k">>,
      tail |-> <<>>],
     [head |-> <<"i", "'", "m", " ", "g", "o", "i", "n", "g", " ", "t", "o">>,
      tail |-> <<>>],
     [head |-> <<"b", "a", "s", "e", "d", " ", "o", "n", " ", "t", "h", "e", " ", "s", "e", "a", "r", "c", "h", " ", "r", "e", "s", "u", "l", "t", "s">>,
      tail |-> <<"l", "e", "t", " ", "m", "e">>],
     [head |-> <<"i", "'", "m", " ", "r", "e", "c", "e", "i", "v", "i", "n", "g", " ", "l", "a", "r", "g", "e", " ", "r", "e", "s", "p", "o", "n", "s", "e", "s">>,
      tail |-> <<"l", "e", "t", " ", "m", "e">>],
     [head |-> <<"n", "o", "w", " ", "l", "e", "t", " ", "m", "e">>,
      tail |-> <<>>],
     [head |-> <<"l", "e", "t", " ", "m", "e", " ", "c", "l", "i", "c", "k">>,
      tail |-> <<>>],
     [head |-> <<"i", "'", "l", "l", " ", "c", "l", "i", "c", "k">>,
      tail |-> <<>>],
     [head |-> <<"l", "e", "t", " ", "m", "e", " ", "n", "o", "w", " ", "t", "a", "k", "e">>,
      tail |-> <<>>],
     [head |-> <<"n", "o", "w", ",", " ", "l", "e", "t", " ", "m", "e", " ", "l", "o", "o", "k", " ", "a", "t">>,
      tail |-> <<>>],
     [head |-> <<"l", "e", "t", " ", "m", "e", " ", "l", "o", "o", "k", " ", "a", "t", " ", "o", "n", "e", " ", "o", "f">>,
      tail |-> <<>>] >>

\* _filter_reasoning_patterns(text): IGNORECASE | DOTALL
FilterReasoningPatterns(text) ==
  IF text = <<>> THEN text
  ELSE LET filtered_text == Strip(CollapseSpaces(SubAll(text, ReasoningPatterns, {"."}, {}, 1), 1, <<>>))
       IN IF Len(filtered_text) < 10 THEN <<>> ELSE filtered_text

\* -------------------------------------------------------- callback events
\* The kwargs of a callback: its keys in the order they were passed, and for
\* each key what the handlers read from its value: a text (has says whether
\* there is one), a toolUseId, and the toolUse / toolResult blocks of a message.
TextChunks == { <<>>,
                <<"L", "e", "t", " ", "m", "e">>,
                <<"H", "e", "l", "l", "o">> }
ThinkChunks == { <<>>, <<"h", "m", "m", "m">> }
ThinkingTexts == { <<>>, <<"h">> }
MessageTexts == { <<>>,
                  <<"D", "o", "n", "e">>,
                  <<"A", "l", "l", " ", "i", "s", " ", "d", "o", "n", "e", ".">>,
                  <<"L", "e", "t", " ", "m", "e", " ", "t", "r", "y", ".", " ", "I", "t", " ", "i", "s", " ", "d", "o", "n", "e", ".">> }

NoValue == [has |-> FALSE, text |-> <<>>, id |-> Missing, uses |-> {}, results |-> {}]
TextValue(text) == [has |-> TRUE, text |-> text, id |-> Missing, uses |-> {}, results |-> {}]
ToolValue(id) == [has |-> FALSE, text |-> <<>>, id |-> id, uses |-> {}, results |-> {}]
MessageValue(text, uses, results) ==
  [has |-> TRUE, text |-> text, id |-> Missing, uses |-> uses, results |-> results]

TextKeys == {"data", "delta", "content_block_delta"}
ToolKeys == {"tool_use", "tool_result", "current_tool_use"}

Values(key) ==
  IF key \in TextKeys THEN {TextValue(t) : t \in TextChunks} \cup {NoValue}
  ELSE IF key = "reasoningText" THEN {TextValue(t) : t \in ThinkChunks}
  ELSE IF key = "thinking" THEN {TextValue(t) : t \in ThinkingTexts} \cup {NoValue}
  ELSE IF key = "message"
       THEN {MessageValue(t, u, r) : t \in MessageTexts, u \in SUBSET ToolIds, r \in SUBSET ToolIds}
            \cup {NoValue}
  ELSE IF key = "content"
       THEN {MessageValue(<<>>, u, r) : u \in SUBSET ToolIds, r \in SUBSET ToolIds} \cup {NoValue}
  ELSE IF key \in ToolKeys THEN {ToolValue(id) : id \in ToolIds \cup {Missing}}
  ELSE {NoValue}

\* the values of an event of one or two keys
ValueSeqs(ks) ==
  IF Len(ks) = 1 THEN {<<a>> : a \in Values(ks[1])}
  ELSE {<<a, b>> : a \in Values(ks[1]), b \in Values(ks[2])}

EventsOf(shapes) == UNION { { [keys |-> ks, val |-> v] : v \in ValueSeqs(ks) } : ks \in shapes }

NoEvent == [keys |-> <<>>, val |-> <<>>]

\* key in kwargs
Has(event, key) == \E i \in 1..Len(event.keys) : event.keys[i] = key

\* kwargs[key]
Get(event, key) == event.val[CHOOSE i \in 1..Len(event.keys) : event.keys[i] = key]

\* the text_chunk that _handle_text_content and _handle_text_streaming extract:
\* from content_block_delta, else from data, else from delta; <<>> for None
TextChunk(event) ==
  IF Has(event, "content_block_delta") THEN Get(event, "content_block_delta").text
  ELSE IF Has(event, "data") THEN Get(event, "data").text
  ELSE IF Has(event, "delta") THEN Get(event, "delta").text
  ELSE <<>>

\* --------------------------------------------------- CleanResponseHandler
CleanControlKeys ==
  {"init_event_loop", "reasoningText", "reasoning_signature", "tool_use", "tool_result", "message"}

CleanShapes ==
  { <<k>> : k \in CleanControlKeys \cup TextKeys \cup {"event"} }
  \cup { <<"data", "delta">>, <<"content_block_delta", "data">>, <<"reasoningText", "delta">>,
         <<"delta", "message">>, <<"tool_use", "delta">> }

\* the events a CleanResponseHandler is called with; it reads no toolUse and
\* no toolResult block of a message
CleanEvents ==
  {event \in EventsOf(CleanShapes) :
     \A i \in 1..Len(event.keys) : event.val[i].uses = {} /\ event.val[i].results = {}}

\* _filter_reasoning_content and _is_reasoning_fragment on the texts of the events
CleanFiltered == [text \in MessageTexts |-> CleanFilterReasoningContent(text)]
CleanFragment == [text \in TextChunks |-> CleanIsReasoningFragment(text)]

\* the branch of __call__ that an event takes
CleanBranch(event) ==
  IF Has(event, "init_event_loop") THEN "init_event_loop"
  ELSE IF Has(event, "reasoningText") THEN "reasoningText"
  ELSE IF Has(event, "reasoning_signature") THEN "reasoning_signature"
  ELSE IF Has(event, "tool_use") THEN "tool_use"
  ELSE IF Has(event, "tool_result") THEN "tool_result"
  ELSE IF Has(event, "message") THEN "message"
  ELSE "text"

\* the test looks at tools_active only
TextAllowedToolsOnly(tools_active, reasoning_active) == ~tools_active

\* the test in front of _handle_text_content
TextAllowed(tools_active, reasoning_active) == ~tools_active /\ ~reasoning_active

\* __call__(**kwargs); messages is len(st.session_state.messages).  What the
\* Streamlit placeholders render is not part of the state.
CleanCall(event, messages) ==
  /\ cl_event' = [branch |-> CleanBranch(event),
                  streaming |-> \E key \in TextKeys : Has(event, key),
                  text |-> TextChunk(event)]
  /\ IF CleanBranch(event) = "init_event_loop"              \* _reset_state
     THEN /\ cl_final' = <<>>
          /\ cl_thinking' = <<>>
          /\ cl_tools' = FALSE
          /\ cl_reasoning' = FALSE
          /\ cl_expander' = FALSE
          /\ UNCHANGED cl_history
     ELSE IF CleanBranch(event) = "reasoningText"           \* _handle_reasoning
     THEN /\ cl_reasoning' = TRUE
          /\ cl_thinking' = cl_thinking \o Get(event, "reasoningText").text
          /\ cl_expander' = TRUE
          /\ UNCHANGED <<cl_final, cl_tools, cl_history>>
     ELSE IF CleanBranch(event) = "reasoning_signature"     \* _end_reasoning
     THEN /\ cl_reasoning' = FALSE
          /\ cl_history' = IF cl_thinking # <<>> /\ messages > 0
                           THEN Append(cl_history, [question_idx |-> messages - 1,
                                                    content |-> cl_thinking])
                           ELSE cl_history
          /\ UNCHANGED <<cl_final, cl_thinking, cl_tools, cl_expander>>
     ELSE IF CleanBranch(event) = "tool_use"                \* _start_tool_usage
     THEN /\ cl_tools' = TRUE
          /\ cl_final' = <<>>
          /\ UNCHANGED <<cl_thinking, cl_reasoning, cl_expander, cl_history>>
     ELSE IF CleanBranch(event) = "tool_result"             \* _handle_tool_result
     THEN UNCHANGED <<cl_final, cl_thinking, cl_tools, cl_reasoning, cl_expander, cl_history>>
     ELSE IF CleanBranch(event) = "message"                 \* _handle_final_message
     THEN LET clean_text == CleanFiltered[Get(event, "message").text]
          IN /\ cl_tools' = FALSE
             /\ cl_reasoning' = FALSE
             /\ cl_final' = IF clean_text # <<>> THEN clean_text ELSE cl_final
             /\ UNCHANGED <<cl_thinking, cl_expander, cl_history>>
     ELSE IF TextAllowed(cl_tools, cl_reasoning)            \* _handle_text_content
     THEN LET text_chunk == TextChunk(event)
              added == text_chunk # <<>> /\ ~CleanFragment[text_chunk]
          IN /\ cl_final' = IF added THEN cl_final \o text_chunk ELSE cl_final
             /\ UNCHANGED <<cl_thinking, cl_tools, cl_reasoning, cl_expander, cl_history>>
     ELSE UNCHANGED <<cl_final, cl_thinking, cl_tools, cl_reasoning, cl_expander, cl_history>>

NextClean ==
  /\ \E event \in CleanEvents, messages \in 0..1 : CleanCall(event, messages)
  /\ Len(cl_final') <= MaxTextLen
  /\ Len(cl_thinking') <= MaxThinkLen
  /\ Len(cl_history') <= MaxHistory
  /\ UNCHANGED <<capVars, ssVars, last, compVars, sth, threadVars, appVars>>

SpecClean == Init /\ [][NextClean]_vars

\* ------------------------------------------------------- StreamlitHandler
\* A StreamlitHandler h is the record of its fields, together with the
\* st.session_state.thinking_history it appends to.  What the Streamlit
\* placeholders and containers (tool_containers) render is not part of the state.
NewStreamlitHandler ==
  [message_container |-> <<>>, thinking_container |-> <<>>, is_thinking |-> FALSE,
   thinking_placeholder |-> FALSE, thinking_preserved |-> FALSE,
   current_reasoning |-> <<>>, delta_buffer |-> <<>>, current_tool_calls |-> {},
   current_tool_results |-> {}, tools_in_use |-> FALSE, thinking_history |-> <<>>]

StreamlitShapes ==
  { <<k>> : k \in {"init_event_loop", "reasoningText", "reasoning_signature", "delta", "message",
                   "tool_use", "tool_result", "event", "thinking_start", "thinking",
                   "thinking_end", "data", "content_block_delta", "content_block_start"} }
  \cup { <<"data", "delta">>, <<"delta", "reasoningText">>, <<"delta", "reasoning_signature">>,
         <<"event", "current_tool_use">>, <<"event", "content">> }

StreamlitEvents == EventsOf(StreamlitShapes)

\* _filter_reasoning_patterns, _is_reasoning_text and _is_small_reasoning_fragment
\* on the texts of the events
RECURSIVE Buffered(_)
Buffered(n) ==
  IF n = 0 THEN {<<>>}
  ELSE LET shorter == Buffered(n - 1)
       IN shorter \cup UNION { {b \o c : c \in {t \in TextChunks : Len(t) = n - Len(b)}} :
                                b \in shorter }
Filtered == [text \in MessageTexts \cup Buffered(MaxTextLen) |-> FilterReasoningPatterns(text)]
ReasoningText == [text \in TextChunks |-> IsReasoningText(text)]
SmallReasoningFragment == [text \in TextChunks |-> IsSmallReasoningFragment(text)]

\* event_type = next((k for k in kwargs.keys() if k not in ["data", "content_block_delta"]), None)
EventType(event) ==
  LET at == {i \in 1..Len(event.keys) : event.keys[i] \notin {"data", "content_block_delta"}}
  IN IF at = {} THEN NoneStr ELSE event.keys[CHOOSE i \in at : \A j \in at : i <= j]

\* the prefix of f"... {thinking_text}": the four characters that the source
\* file holds in front of the space
ThoughtBalloon == <<"U+00F0", "U+0178", "U+2019", "U+00AD", " ">>

HandleInitialization(h) ==
  [h EXCEPT !.message_container = <<>>, !.thinking_container = <<>>, !.is_thinking = FALSE,
            !.thinking_placeholder = FALSE, !.thinking_preserved = FALSE]

HandleThinkingStart(h) ==
  [h EXCEPT !.is_thinking = TRUE, !.thinking_container = <<>>, !.thinking_placeholder = TRUE]

HandleThinkingContent(h, reasoning_text) ==
  LET h1 == IF h.thinking_container = <<>> THEN HandleThinkingStart(h) ELSE h
  IN [h1 EXCEPT !.thinking_container = @ \o reasoning_text]

HandleThinking(h, thinking_data) ==
  IF thinking_data.has /\ thinking_data.text # <<>>
  THEN [h EXCEPT !.thinking_container = @ \o ThoughtBalloon \o thinking_data.text]
  ELSE h

PreserveThinkingContent(h, messages) ==
  IF h.thinking_container # <<>> /\ ~h.thinking_preserved
  THEN [h EXCEPT !.thinking_preserved = TRUE,
                 !.thinking_history = IF messages > 0
                                      THEN Append(@, [question_idx |-> messages - 1,
                                                      content |-> h.thinking_container])
                                      ELSE @]
  ELSE h

HandleThinkingEnd(h, messages) ==
  LET h1 == [h EXCEPT !.is_thinking = FALSE]
  IN IF h1.thinking_container # <<>> /\ h1.thinking_placeholder
     THEN PreserveThinkingContent(h1, messages)
     ELSE h1

\* the test in front of  self.delta_buffer += delta_content
DeltaBuffered(h, delta_content) ==
  /\ delta_content # <<>>
  /\ ~h.is_thinking
  /\ ~h.tools_in_use
  /\ ~ReasoningText[delta_content]
  /\ ~SmallReasoningFragment[delta_content]

\* the test in front of  self.message_container += text_chunk
TextStreamed(h, text_chunk) ==
  /\ text_chunk # <<>>
  /\ ~h.is_thinking
  /\ ~ReasoningText[text_chunk]
  /\ ~SmallReasoningFragment[text_chunk]

HandleTextStreaming(h, event) ==
  IF TextStreamed(h, TextChunk(event))
  THEN [h EXCEPT !.message_container = @ \o TextChunk(event)]
  ELSE h

\* _handle_tool_use and _handle_tool_result read tool["toolUseId"]: a KeyError
\* without it, which ends __call__
ToolEventRaises(event) ==
  \/ Has(event, "tool_use") /\ Get(event, "tool_use").id = Missing
  \/ Has(event, "tool_result") /\ Get(event, "tool_result").id = Missing

\* the message branch of __call__
CollectMessage(h, message) ==
  IF ~message.has THEN h
  ELSE LET full_text == IF h.is_thinking THEN <<>> ELSE message.text
           h1 == [h EXCEPT !.current_tool_calls = @ \cup message.uses,
                           !.current_tool_results = @ \cup message.results]
           h2 == IF full_text # <<>> /\ ~h1.is_thinking
                 THEN [h1 EXCEPT !.message_container = @ \o Filtered[full_text]]
                 ELSE h1
       IN IF h2.delta_buffer # <<>> /\ ~h2.is_thinking
          THEN [h2 EXCEPT !.message_container = @ \o Filtered[h2.delta_buffer],
                          !.delta_buffer = <<>>]
          ELSE h2

\* the first half of __call__, which collects the content: the handler
\* after it, and whether __call__ has returned
Collect(h, event, messages) ==
  IF Has(event, "init_event_loop")
  THEN [h |-> HandleInitialization([h EXCEPT !.current_reasoning = <<>>, !.delta_buffer = <<>>,
                                             !.current_tool_calls = {},
                                             !.current_tool_results = {}]),
        returned |-> TRUE]
  ELSE IF EventType(event) = "reasoningText"
  THEN [h |-> HandleThinkingContent(
                [h EXCEPT !.current_reasoning = @ \o Get(event, "reasoningText").text],
                Get(event, "reasoningText").text),
        returned |-> TRUE]
  ELSE IF EventType(event) = "reasoning_signature"
  THEN [h |-> IF h.current_reasoning # <<>>
              THEN HandleThinkingEnd([h EXCEPT !.current_reasoning = <<>>], messages)
              ELSE h,
        returned |-> TRUE]
  ELSE IF EventType(event) = "delta"
  THEN [h |-> IF DeltaBuffered(h, Get(event, "delta").text)
              THEN [h EXCEPT !.delta_buffer = @ \o Get(event, "delta").text]
              ELSE h,
        returned |-> FALSE]
  ELSE IF EventType(event) = "message"
  THEN [h |-> CollectMessage(h, Get(event, "message")), returned |-> FALSE]
  ELSE IF Has(event, "tool_use")
  THEN [h |-> [h EXCEPT !.current_tool_calls = @ \cup {DictGet(Get(event, "tool_use").id, "unknown")},
                        !.tools_in_use = TRUE,
                        !.message_container = <<>>,
                        !.delta_buffer = <<>>],
        returned |-> FALSE]
  ELSE IF Has(event, "tool_result")
  THEN LET results == h.current_tool_results \cup {DictGet(Get(event, "tool_result").id, "unknown")}
       IN [h |-> [h EXCEPT !.current_tool_results = results,
                           !.tools_in_use = IF Cardinality(results) >= Cardinality(h.current_tool_calls)
                                            THEN FALSE ELSE @],
           returned |-> FALSE]
  ELSE IF EventType(event) = "event"
  THEN [h |-> IF Has(event, "current_tool_use")
              THEN [h EXCEPT !.current_tool_calls =
                               @ \cup {DictGet(Get(event, "current_tool_use").id, "unknown")}]
              ELSE IF Has(event, "content")
              THEN [h EXCEPT !.current_tool_calls = @ \cup Get(event, "content").uses,
                             !.current_tool_results = @ \cup Get(event, "content").results]
              ELSE h,
        returned |-> FALSE]
  ELSE [h |-> h, returned |-> FALSE]

\* the second half of __call__, which updates the UI
Display(h, event, messages) ==
  IF Has(event, "reasoningText") THEN HandleThinkingContent(h, Get(event, "reasoningText").text)
  ELSE IF Has(event, "reasoning_signature") THEN HandleThinkingEnd(h, messages)
  ELSE IF Has(event, "thinking_start") THEN HandleThinkingStart(h)
  ELSE IF Has(event, "thinking") THEN HandleThinking(h, Get(event, "thinking"))
  ELSE IF Has(event, "thinking_end") THEN HandleThinkingEnd(h, messages)
  ELSE LET h1 == HandleTextStreaming(h, event)
       IN IF ~ToolEventRaises(event) /\ Has(event, "message") /\ ~h1.thinking_preserved
          THEN PreserveThinkingContent(h1, messages)
          ELSE h1

\* __call__(**kwargs) on handler h; messages is len(st.session_state.messages)
StreamlitHandle(h, event, messages) ==
  LET first == Collect(h, event, messages)
  IN IF first.returned THEN first.h ELSE Display(first.h, event, messages)

StreamlitCall(event, messages) == sth' = StreamlitHandle(sth, event, messages)

NextStreamlit ==
  /\ \E event \in StreamlitEvents, messages \in 0..1 : StreamlitCall(event, messages)
  /\ Len(sth'.message_container) <= MaxTextLen
  /\ Len(sth'.delta_buffer) <= MaxTextLen
  /\ Len(sth'.current_reasoning) <= MaxThinkLen
  /\ Len(sth'.thinking_container) <= MaxThinkLen
  /\ Len(sth'.thinking_history) <= MaxHistory
  /\ UNCHANGED <<capVars, ssVars, last, compVars, cleanVars, threadVars, appVars>>

SpecStreamlit == Init /\ [][NextStreamlit]_vars

\* ------------------------------------- SessionStateManager.add_action, threads
\* Threads that call add_action, statement by statement.  st.session_state
\* holds a reference to a list object: th_lists are the list objects, th_key
\* is the one stored under ACTION_HISTORY_KEY (0: the key is missing).
Threads == 1..NumThreads

\* the action that thread t adds in its k-th call
ActionOf(t, k) == <<t, k>>

\* a lock that excludes nobody
LockFreeAlways(t) == TRUE

\* _lock = threading.RLock(): a thread gets it if no other thread holds it
LockFree(t) == lock.owner \in {0, t}

Acquire(t) == [owner |-> t, count |-> IF lock.owner = t THEN lock.count + 1 ELSE 1]

Release(t) ==
  IF lock.owner # t THEN lock
  ELSE IF lock.count > 1 THEN [owner |-> t, count |-> lock.count - 1]
  ELSE [owner |-> 0, count |-> 0]

Goto(t, label) == th_pc' = [th_pc EXCEPT ![t] = label]

\* a thread calls add_action(action)
AddActionCall(t) ==
  /\ th_pc[t] = "idle"
  /\ th_done[t] < MaxCalls
  /\ Goto(t, "with _lock")
  /\ th_overlap' = (th_overlap \/ \E u \in Threads \ {t} : th_pc[u] # "idle")
  /\ UNCHANGED <<lock, th_key, th_lists, th_keys_set, th_missing, th_history, th_done>>

\* add_action: with cls._lock
AddActionLock(t) ==
  /\ th_pc[t] = "with _lock"
  /\ LockFree(t)
  /\ lock' = Acquire(t)
  /\ Goto(t, "initialize: with _lock")
  /\ UNCHANGED <<th_key, th_lists, th_keys_set, th_missing, th_history, th_done, th_overlap>>

\* initialize_session_state: with cls._lock (the lock is re-entrant)
InitializeLock(t) ==
  /\ th_pc[t] = "initialize: with _lock"
  /\ LockFree(t)
  /\ lock' = Acquire(t)
  /\ Goto(t, "initialize: if")
  /\ UNCHANGED <<th_key, th_lists, th_keys_set, th_missing, th_history, th_done, th_overlap>>

\* if cls.ACTION_HISTORY_KEY not in st.session_state
InitializeTest(t) ==
  /\ th_pc[t] = "initialize: if"
  /\ th_missing' = [th_missing EXCEPT ![t] = (th_key = 0)]
  /\ Goto(t, "initialize: set")
  /\ UNCHANGED <<lock, th_key, th_lists, th_keys_set, th_history, th_done, th_overlap>>

\* st.session_state[cls.ACTION_HISTORY_KEY] = []
InitializeSet(t) ==
  /\ th_pc[t] = "initialize: set"
  /\ IF th_missing[t]
     THEN /\ th_lists' = Append(th_lists, <<>>)
          /\ th_key' = Len(th_lists) + 1
     ELSE UNCHANGED <<th_lists, th_key>>
  /\ Goto(t, "initialize: rest")
  /\ UNCHANGED <<lock, th_keys_set, th_missing, th_history, th_done, th_overlap>>

\* the other keys of initialize_session_state, and the end of its with block
InitializeRest(t) ==
  /\ th_pc[t] = "initialize: rest"
  /\ th_keys_set' = TRUE
  /\ lock' = Release(t)
  /\ Goto(t, "get")
  /\ UNCHANGED <<th_key, th_lists, th_missing, th_history, th_done, th_overlap>>

\* current_history = st.session_state.get(cls.ACTION_HISTORY_KEY, [])
AddActionGet(t) ==
  /\ th_pc[t] = "get"
  /\ IF th_key = 0
     THEN /\ th_lists' = Append(th_lists, <<>>)
          /\ th_history' = [th_history EXCEPT ![t] = Len(th_lists) + 1]
     ELSE /\ th_history' = [th_history EXCEPT ![t] = th_key]
          /\ UNCHANGED th_lists
  /\ Goto(t, "append")
  /\ UNCHANGED <<lock, th_key, th_keys_set, th_missing, th_done, th_overlap>>

\* current_history.append(action)
AddActionAppend(t) ==
  /\ th_pc[t] = "append"
  /\ th_lists' = [th_lists EXCEPT ![th_history[t]] = Append(@, ActionOf(t, th_done[t] + 1))]
  /\ Goto(t, "store")
  /\ UNCHANGED <<lock, th_key, th_keys_set, th_missing, th_history, th_done, th_overlap>>

\* st.session_state[cls.ACTION_HISTORY_KEY] = current_history
AddActionStore(t) ==
  /\ th_pc[t] = "store"
  /\ th_key' = th_history[t]
  /\ Goto(t, "unlock")
  /\ UNCHANGED <<lock, th_lists, th_keys_set, th_missing, th_history, th_done, th_overlap>>

\* the end of add_action's with block; add_action returns
AddActionUnlock(t) ==
  /\ th_pc[t] = "unlock"
  /\ lock' = Release(t)
  /\ th_done' = [th_done EXCEPT ![t] = @ + 1]
  /\ th_history' = [th_history EXCEPT ![t] = 0]
  /\ Goto(t, "idle")
  /\ UNCHANGED <<th_key, th_lists, th_keys_set, th_missing, th_overlap>>

NextThreads ==
  /\ \E t \in Threads :
       \/ AddActionCall(t)
       \/ AddActionLock(t)
       \/ InitializeLock(t)
       \/ InitializeTest(t)
       \/ InitializeSet(t)
       \/ InitializeRest(t)
       \/ AddActionGet(t)
       \/ AddActionAppend(t)
       \/ AddActionStore(t)
       \/ AddActionUnlock(t)
  /\ UNCHANGED <<capVars, ssVars, last, compVars, cleanVars, sth, appVars>>

SpecThreads == Init /\ [][NextThreads]_vars

\* ------------------------------------------------------------ app.py, main
\* The chat loop of main(): an input is submitted, the agent runs and calls the
\* StreamlitHandler of this input with its events, and the agent returns or raises.
UserInputs == { <<"h", "i">> }
BlockTexts == { <<"D", "o", "n", "e">> }
ErrorTexts == { <<"b", "o", "o", "m">> }

\* a content block of the AgentResult's message: one with a "text", or one without
TextBlock(text) == [has_text |-> TRUE, text |-> text]
OtherBlock == [has_text |-> FALSE, text |-> <<>>]
Blocks == {TextBlock(t) : t \in BlockTexts} \cup {OtherBlock}

\* the AgentResult that agent(user_input) returns: the content of its message
Responses == UNION { [1..n -> Blocks] : n \in 0..MaxBlocks }

\* extract_response_text(response) on an AgentResult:
\*   ''.join(block.get('text', '') for block in content if ... 'text' in block)
RECURSIVE ExtractResponseText(_)
ExtractResponseText(content) ==
  IF content = <<>> THEN <<>>
  ELSE (IF Head(content).has_text THEN Head(content).text ELSE <<>>)
       \o ExtractResponseText(Tail(content))

\* the events the agent passes to its callback handler while it runs
AgentEvents ==
  { [keys |-> <<"data">>, val |-> <<TextValue(t)>>] : t \in TextChunks \ {<<>>} }
  \cup { [keys |-> <<"reasoningText">>, val |-> <<TextValue(t)>>] : t \in ThinkChunks \ {<<>>} }
  \cup { [keys |-> <<"reasoning_signature">>, val |-> <<NoValue>>] }

\* the session when main() has returned: stream_handler is gone, and
\* st.session_state.thinking_history is what the handler left
HandlerGone(h) == [NewStreamlitHandler EXCEPT !.thinking_history = h.thinking_history]

ChatMessage(role, content) == [role |-> role, content |-> content]

\* f"Error: {str(e)}"
ErrorMessage(e) == <<"E", "r", "r", "o", "r", ":", " ">> \o e

\* if user_input: ... up to  stream_handler = StreamlitHandler(...)
SubmitUserInput(user_input) ==
  /\ app_pc = "input"
  /\ ~app_processing                       \* st.chat_input(..., disabled=processing)
  /\ Cardinality({i \in 1..Len(app_messages) : app_messages[i].role = "user"}) < MaxInputs
  /\ app_processing' = TRUE
  /\ app_messages' = Append(app_messages, ChatMessage("user", user_input))
  /\ sth' = HandlerGone(sth)              \* a new StreamlitHandler
  /\ UNCHANGED app_events
  /\ app_pc' = "agent"

\* agent(user_input) calls agent.callback_handler with an event
AgentCallback(event) ==
  /\ app_pc = "agent"
  /\ app_events < MaxEvents
  /\ app_events' = app_events + 1
  /\ StreamlitCall(event, Len(app_messages))
  /\ Len(sth'.message_container) <= MaxTextLen
  /\ Len(sth'.thinking_container) <= MaxThinkLen
  /\ UNCHANGED <<app_messages, app_processing, app_pc>>

\* processing is left as it is
ProcessingKept(processing) == processing

\* finally: st.session_state.processing = False
ProcessingReset(processing) == FALSE

\* agent(user_input) returns response: the rest of the try block, and finally
AgentReturns(response) ==
  LET response_text == ExtractResponseText(response)
      content == IF response_text # <<>> THEN response_text ELSE sth.message_container
  IN /\ app_pc = "agent"
     /\ app_messages' = Append(app_messages, ChatMessage("assistant", content))
     /\ sth' = HandlerGone(PreserveThinkingContent(sth, Len(app_messages')))
     /\ app_processing' = ProcessingReset(app_processing)
     /\ app_pc' = "input"
     /\ app_events' = 0

\* agent(user_input) raises e, an Exception (is_exception) or another
\* BaseException, which  except Exception  does not catch
AgentRaises(is_exception, e) ==
  /\ app_pc = "agent"
  /\ app_messages' = IF is_exception
                     THEN Append(app_messages, ChatMessage("assistant", ErrorMessage(e)))
                     ELSE app_messages
  /\ app_processing' = ProcessingReset(app_processing)
  /\ app_pc' = "input"
  /\ sth' = HandlerGone(sth)
  /\ app_events' = 0

NextApp ==
  /\ \/ \E user_input \in UserInputs : SubmitUserInput(user_input)
     \/ \E event \in AgentEvents : AgentCallback(event)
     \/ \E response \in Responses : AgentReturns(response)
     \/ \E is_exception \in BOOLEAN, e \in ErrorTexts : AgentRaises(is_exception, e)
  /\ UNCHANGED <<capVars, ssVars, last, compVars, cleanVars, threadVars>>

SpecApp == Init /\ [][NextApp]_vars

\* ------------------------------------------------------------ properties

\* what a matched result does: no action is appended, the tool use action
\* recorded for the id gets the status and the output, the id is no longer pending
MatchedResult(tid, status) ==
  LET c == last.recorded[tid]
  IN /\ c # 0
     /\ cap_actions' = cap_actions
     /\ nalloc' = nalloc
     /\ heap[c].action_type = "tool_use" /\ heap[c].tool_use_id = tid
     /\ heap'[c] = [heap[c] EXCEPT !.status = status, !.output_status = status,
                                   !.has_duration = TRUE]
     /\ cap_pending[tid] = c
     /\ cap_pending'[tid] = 0

\* C1 as stated: a capture_tool_result for an id that capture_tool_use was
\* called with earlier (the latest such call is the one that counts) appends no
\* action, sets status and output on the recorded tool use action and removes
\* the id from pending_tool_uses.
C1_AnyLaterResult ==
  [][(last'.op = "capture_tool_result" /\ last.recorded[last'.tid] # 0)
       => MatchedResult(last'.tid, last'.status)]_vars

\* C1, amended: the same, for the first capture_tool_result after the
\* capture_tool_use, with no clear_history in between.
C1_FirstResultMatches ==
  [][(last'.op = "capture_tool_result" /\ last'.tid \in last.awaiting)
       => MatchedResult(last'.tid, last'.status)]_vars

\* a matched result has just run: the recorded tool use action carries its status
C1_Witness ==
  /\ last.op = "capture_tool_result"
  /\ last.recorded[last.tid] # 0
  /\ last.recorded[last.tid] \in Range(cap_actions)
  /\ heap[last.recorded[last.tid]].status = last.status
  /\ heap[last.recorded[last.tid]].has_duration
  /\ cap_pending[last.tid] = 0

\* C8: a capture_tool_result whose id is not pending appends exactly one action,
\* of type tool_result, with that id and status and the current turn, and
\* changes no action the lists held and no pending entry.
C8_OrphanResultAppends ==
  [][(last'.op = "capture_tool_result" /\ cap_pending[last'.tid] = 0)
       => /\ Len(cap_actions') = Len(cap_actions) + 1
          /\ SubSeq(cap_actions', 1, Len(cap_actions)) = cap_actions
          /\ cap_actions'[Len(cap_actions')] \notin Reachable(cap_actions, cap_pending, ss_history)
          /\ heap'[cap_actions'[Len(cap_actions')]] =
               [turn |-> cap_turn, action_type |-> "tool_result",
                tool_use_id |-> last'.tid, reasoning_context |-> <<>>,
                reasoning_text |-> <<>>, output_status |-> last'.status,
                status |-> last'.status, has_duration |-> FALSE]
          /\ \A c \in Range(cap_actions) \cup (Range(cap_pending) \ {0}) : heap'[c] = heap[c]
          /\ cap_pending' = cap_pending]_vars

\* an orphaned result has just been recorded, in a turn after the first, behind
\* an older action
C8_Witness ==
  /\ last.op = "capture_tool_result"
  /\ Len(cap_actions) >= 2
  /\ heap[cap_actions[Len(cap_actions)]].action_type = "tool_result"
  /\ heap[cap_actions[Len(cap_actions)]].tool_use_id = last.tid
  /\ heap[cap_actions[Len(cap_actions)]].turn = 1
  /\ cap_turn = 1

\* C3 as stated: EnhancedStreamlitHandler.start_new_turn raises the session's
\* current_turn by exactly 1, and afterwards it equals the capture instance's
\* current_turn.
C3_TurnAdvancesByOne ==
  [][last'.op = "enhanced_start_new_turn"
       => /\ ss_turn' = ss_turn + 1
          /\ ss_turn' = cap_turn']_vars

\* C4: after start_new_conversation the session's action history is empty, its
\* current_turn is 0, the stored capture instance has no actions and no pending
\* tool uses, and show_action_history and action_history_expanded are as before.
C4_NewConversationResets ==
  [][last'.op = "start_new_conversation"
       => /\ {"action_history", "current_turn", "action_capture"} \subseteq ss_has'
          /\ ss_history' = <<>>
          /\ ss_turn' = 0
          /\ cap_actions' = <<>>
          /\ \A t \in DOMAIN cap_pending' : cap_pending'[t] = 0
          /\ \A k \in {"show_action_history", "action_history_expanded"} :
               (k \in ss_has') = (k \in ss_has)
          /\ ss_show' = ss_show
          /\ ss_expanded' = ss_expanded]_vars

\* start_new_conversation has just dropped a recorded tool use (the heap still
\* shows it, no list does) in a session whose UI settings are not the defaults
C4_Witness ==
  /\ last.op = "start_new_conversation"
  /\ \E c \in DOMAIN heap : heap[c].action_type = "tool_use"
  /\ ss_history = <<>> /\ cap_actions = <<>>
  /\ {"show_action_history", "action_history_expanded"} \subseteq ss_has
  /\ ~ss_show /\ ss_expanded

\* the last k elements of s, in order
LastN(s, k) == SubSeq(s, Len(s) - k + 1, Len(s))

\* C5 as stated: after cleanup_old_actions(max_actions), max_actions >= 0, the
\* session history holds at most max_actions actions, the most recent ones in
\* their order, and the capture instance's list holds the same; a history no
\* longer than max_actions is unchanged.
C5_KeepsAtMostMax ==
  [][last'.op = "cleanup_old_actions"
       => LET old == GetActionHistory
              m == last'.n
          IN /\ Len(ss_history') <= m
             /\ Len(old) > m => /\ ss_history' = LastN(old, m)
                                /\ cap_actions' = ss_history'
             /\ Len(old) <= m => ss_history' = old]_vars

\* C10: after add_action(a), get_action_history() returns what it returned
\* before with a appended: it is not empty and a is its last element.
C10_AddThenGet ==
  [][last'.op = "add_action"
       => /\ GetActionHistory' = Append(GetActionHistory, last'.n)
          /\ GetActionHistory' # <<>>
          /\ \E i \in 1..Len(GetActionHistory') : GetActionHistory'[i] = last'.n]_vars

\* add_action has just added an action behind an older one
C10_Witness ==
  /\ last.op = "add_action"
  /\ Len(ss_history) >= 2
  /\ ss_history[Len(ss_history)] = last.n
  /\ heap[last.n].action_type \in AddedTypes

\* the callable handlers of the chain, in list order
RECURSIVE CallableFrom(_)
CallableFrom(i) ==
  IF i > Len(comp_handlers) THEN <<>>
  ELSE IF comp_handlers[i] THEN <<i>> \o CallableFrom(i + 1)
  ELSE CallableFrom(i + 1)

Invoked == [k \in 1..Len(comp_log) |-> comp_log[k].handler]

\* C2 as stated: a __call__ invokes each (callable) handler of the chain exactly
\* once, in list order, and whatever a handler raises is not propagated.
C2_EveryHandlerRuns ==
  comp_result # "none" => /\ comp_result = "returned"
                          /\ Invoked = CallableFrom(1)

\* C2, amended: a __call__ invokes the callable handlers in list order, each at
\* most once; unless a handler raises a BaseException that is no Exception,
\* each is invoked exactly once and nothing is propagated, also when handlers
\* raise Exceptions; a BaseException that is no Exception ends the call.
C2_ExceptionsDoNotStopTheChain ==
  comp_result # "none" =>
    LET aborted == \E k \in 1..Len(comp_log) : comp_log[k].outcome = "raises BaseException"
    IN /\ Len(Invoked) <= Len(CallableFrom(1))
       /\ Invoked = SubSeq(CallableFrom(1), 1, Len(Invoked))
       /\ ~aborted => /\ comp_result = "returned"
                      /\ Invoked = CallableFrom(1)
       /\ aborted => /\ comp_result = "propagated"
                     /\ comp_log[Len(comp_log)].outcome = "raises BaseException"

\* a call has returned although its first handler raised an Exception, and the
\* handler behind it was invoked
C2_Witness ==
  /\ comp_result = "returned"
  /\ Len(comp_log) >= 2
  /\ comp_log[1].outcome = "raises Exception"
  /\ comp_log[2].handler > comp_log[1].handler

\* C11: initialize_session_state never changes the value of a session key that
\* already exists, creates every missing key with its default (empty action
\* history, turn 0, show_action_history true, action_history_expanded false),
\* and a second call changes nothing.
C11_InitializeKeepsAndCreates ==
  [][InitializeSessionState =>
       /\ ss_has \subseteq ss_has'
       /\ ManagerKeys \subseteq ss_has'
       /\ ss_history' = IF "action_history" \in ss_has THEN ss_history ELSE <<>>
       /\ ss_turn' = IF "current_turn" \in ss_has THEN ss_turn ELSE 0
       /\ ss_show' = IF "show_action_history" \in ss_has THEN ss_show ELSE TRUE
       /\ ss_expanded' = IF "action_history_expanded" \in ss_has THEN ss_expanded ELSE FALSE
       /\ "conversation_id" \in ss_has => ss_conversation_id' = ss_conversation_id
       /\ "last_cleanup_time" \in ss_has => ss_last_cleanup_time' = ss_last_cleanup_time
       /\ "action_capture" \in ss_has =>
            UNCHANGED <<cap_actions, cap_pending, cap_turn, cap_reasoning, cap_rstart>>
       /\ last.op = "initialize_session_state" => UNCHANGED <<ssVars, capVars>>]_vars

\* initialize_session_state has run on a session that had a history, a turn, a
\* conversation id and a capture instance but no show_action_history and no
\* action_history_expanded: it created these two and kept the rest
C11_Witness ==
  /\ last.op = "initialize_session_state"
  /\ last.n = 2
  /\ ss_history # <<>>
  /\ ss_turn = 1
  /\ ss_conversation_id = 2
  /\ ss_show
  /\ ~ss_expanded

\* the concatenation of the texts of a sequence
RECURSIVE Concatenation(_)
Concatenation(texts) ==
  IF texts = <<>> THEN <<>> ELSE Head(texts) \o Concatenation(Tail(texts))

\* the positions in capture.actions of the reasoning actions tagged with turn t
ReasoningActionsOf(t) ==
  {i \in 1..Len(cap_actions) :
     heap[cap_actions[i]].action_type = "reasoning" /\ heap[cap_actions[i]].turn = t}

\* C13: within one turn, all non-empty reasoning chunks passed to
\* capture_reasoning accumulate into a single action of type 'reasoning' whose
\* reasoning_text is the concatenation of the chunks in arrival order
\* (capture_reasoning_end does not start a new action); the first non-empty
\* chunk after start_new_turn creates a new reasoning action tagged with the new
\* turn.  So: a turn that got no chunk yet has no reasoning action, and a turn
\* that got chunks has exactly one, with the chunks' concatenation as its text.
C13_ChunksAccumulateInOneAction ==
  CaptureExists =>
    IF last.chunks = <<>>
    THEN ReasoningActionsOf(cap_turn) = {}
    ELSE /\ Cardinality(ReasoningActionsOf(cap_turn)) = 1
         /\ \A i \in ReasoningActionsOf(cap_turn) :
              heap[cap_actions[i]].reasoning_text = Concatenation(last.chunks)

\* a second turn has got two chunks, with a capture_reasoning_end behind them,
\* after the first turn had got one: there is one reasoning action for each turn
C13_Witness ==
  /\ last.op = "capture_reasoning_end"
  /\ cap_turn = 1
  /\ Len(last.chunks) = 2
  /\ last.chunks[1] # last.chunks[2]
  /\ Cardinality(ReasoningActionsOf(0)) = 1
  /\ Cardinality(ReasoningActionsOf(1)) = 1

\* ==== handlers
\* the latest event was a text-streaming event: it carried data, delta or
\* content_block_delta and none of the keys that __call__ dispatches on before
CleanTextStreaming(event) == event.branch = "text" /\ event.streaming

\* C6: in CleanResponseHandler, a text-streaming event (data, delta or
\* content_block_delta) received while tools_active or reasoning_active is
\* true leaves final_response unchanged.
C6_TextSuppressedWhileActive ==
  [][(CleanTextStreaming(cl_event') /\ (cl_tools \/ cl_reasoning)) => cl_final' = cl_final]_vars

\* the latest event was a text-streaming event with a text that
\* _is_reasoning_fragment lets through, received while reasoning was active
\* and a response was already there
C6_Witness ==
  /\ CleanTextStreaming(cl_event)
  /\ cl_event.text # <<>>
  /\ ~CleanIsReasoningFragment(cl_event.text)
  /\ cl_reasoning
  /\ cl_final # <<>>

\* C7: in StreamlitHandler, while tools_in_use is true, the text of a delta
\* event is added neither to delta_buffer nor to message_container (the text
\* shown to the user).
C7_DeltaSuppressedDuringTools ==
  [][\A event \in StreamlitEvents, messages \in 0..1 :
       (sth.tools_in_use /\ EventType(event) = "delta" /\ StreamlitCall(event, messages)) =>
         /\ sth'.delta_buffer = sth.delta_buffer
         /\ sth'.message_container = sth.message_container]_vars

\* the list stored under ACTION_HISTORY_KEY
SessionActionHistory == IF th_key = 0 THEN <<>> ELSE th_lists[th_key]

\* C9: when two threads call SessionStateManager.add_action concurrently, both
\* actions are in the session action history afterwards (no lost update), for
\* every interleaving of the two calls: every action whose add_action call has
\* returned is in the history, once.
C9_NoLostUpdate ==
  \A t \in Threads : \A k \in 1..th_done[t] :
    Cardinality({i \in 1..Len(SessionActionHistory) : SessionActionHistory[i] = ActionOf(t, k)}) = 1

\* two calls of add_action by different threads overlapped, both have
\* returned, and both actions are in the history
C9_Witness ==
  /\ th_overlap
  /\ \A t \in Threads : th_done[t] >= 1 /\ th_pc[t] = "idle"
  /\ \A t \in Threads : \E i \in 1..Len(SessionActionHistory) : SessionActionHistory[i] = ActionOf(t, 1)

\* C12 as stated: each submitted user input appends exactly one user message
\* followed by exactly one assistant message to st.session_state.messages (the
\* response text on success, an 'Error: ...' message if the agent raises), and
\* st.session_state.processing is false once handling of the input has finished,
\* in both cases.
C12_OneAssistantMessageAlways ==
  [][/\ \A user_input \in UserInputs :
          SubmitUserInput(user_input) =>
            app_messages' = Append(app_messages, ChatMessage("user", user_input))
     /\ \A event \in AgentEvents : AgentCallback(event) => app_messages' = app_messages
     /\ \A response \in Responses :
          AgentReturns(response) =>
            /\ app_messages' = Append(app_messages,
                                      ChatMessage("assistant", ExtractResponseText(response)))
            /\ ~app_processing'
     /\ \A is_exception \in BOOLEAN, e \in ErrorTexts :
          AgentRaises(is_exception, e) =>
            /\ app_messages' = Append(app_messages, ChatMessage("assistant", ErrorMessage(e)))
            /\ ~app_processing']_vars

\* C12, amended: each submitted user input appends exactly one user message.
\* If the agent returns, exactly one assistant message follows: the response
\* text, or the text the handler streamed if the response text is empty.  If
\* the agent raises an Exception, exactly one assistant message 'Error: ...'
\* follows.  If it raises a BaseException that is no Exception, no assistant
\* message follows.  In all three cases processing is false once handling has
\* finished, and the handler calls in between append nothing.
C12_AssistantMessageUnlessBaseException ==
  [][/\ \A user_input \in UserInputs :
          SubmitUserInput(user_input) =>
            app_messages' = Append(app_messages, ChatMessage("user", user_input))
     /\ \A event \in AgentEvents : AgentCallback(event) => app_messages' = app_messages
     /\ \A response \in Responses :
          AgentReturns(response) =>
            /\ app_messages[Len(app_messages)].role = "user"
            /\ app_messages' =
                 Append(app_messages,
                        ChatMessage("assistant",
                                    IF ExtractResponseText(response) = <<>>
                                    THEN sth.message_container
                                    ELSE ExtractResponseText(response)))
            /\ ~app_processing'
     /\ \A is_exception \in BOOLEAN, e \in ErrorTexts :
          AgentRaises(is_exception, e) =>
            /\ app_messages[Len(app_messages)].role = "user"
            /\ app_messages' = IF is_exception
                               THEN Append(app_messages, ChatMessage("assistant", ErrorMessage(e)))
                               ELSE app_messages
            /\ ~app_processing'
     /\ app_pc' = "input" => ~app_processing']_vars

\* two inputs have been handled: the agent answered the first one with an empty
\* response after streaming text, and raised an Exception on the second
C12_Witness ==
  /\ app_pc = "input"
  /\ ~app_processing
  /\ Len(app_messages) = 4
  /\ app_messages[1].role = "user"
  /\ app_messages[2] = ChatMessage("assistant", <<"H", "e", "l", "l", "o">>)
  /\ app_messages[3].role = "user"
  /\ app_messages[4] = ChatMessage("assistant", ErrorMessage(<<"b", "o", "o", "m">>))

====
